---- MODULE Spec2Model ----
(***************************************************************************)
(* Model of the two components of agora_kritis that carry a contract:      *)
(*   - the structured-extraction step every analyzer reimplements          *)
(*     (backend call, fence stripping, json.loads, shape normalisation,    *)
(*     fallback), and                                                      *)
(*   - the knowledge-graph linker of the V5.0 / V6.0 analyzers.            *)
(* Each analyzer is an operator translated from its Python body; the       *)
(* specifications below apply them to bounded families of inputs.          *)
(***************************************************************************)
EXTENDS Integers, Sequences, FiniteSets, TLC

VARIABLES
    backend,    \* extraction: what the generative backend does for this call
    arg,        \* extraction: the caller's article_number / chunk id
    analyzer,   \* extraction: which analyzer ran ("none" before the call)
    result,     \* extraction: what the analyzer returned or raised
    rpc,        \* V6 retry wrapper: "idle" | "call" | "done" | "raised"
    attempt,    \* V6 retry wrapper: loop variable of range(max_retries)
    callLog,    \* V6 retry wrapper: error class of each backend call made
    rresult,    \* V6 retry wrapper: the value returned to the map phase
    laws,                    \* store: rows of table laws, in table order
    law_articles,            \* store: rows of table law_articles
    law_relationships,       \* store: rows of table law_relationships
    law_article_references,  \* store: rows of table law_article_references
    lpc,        \* linker: "idle" | "loop" | "returned" | "raised"
    lctx,       \* linker: which function runs, and its source arguments
    lstats,     \* linker: the counters the call returns
    lcount,     \* linker: references of the list processed so far
    lref,       \* linker: the reference of the last loop iteration
    lev,        \* linker: what the last loop iteration did
    plist,      \* linker: the cross_references argument of the call
    lstart,     \* linker: the link tables and articles as the call found them
    pitems,     \* graph pass: content_type of each item of analysis_results
    pphase,     \* graph pass: "idle" | "articles" | "preamble" | "done"
    pidx,       \* graph pass: items of the current loop already visited
    plog,       \* graph pass: the linker calls made so far, in order
    phase,      \* graph builder phase: position, law id, retry count, events
    gather,     \* legacy map phase: the per-chunk tasks and the semaphore
    analyst,    \* V5.0 analyst phase: the items, their results, the summary
    batches     \* smart batching: the article list, the limit, the batches

extractVars == <<backend, arg, analyzer, result>>
retryVars   == <<rpc, attempt, callLog, rresult>>
storeVars   == <<laws, law_articles, law_relationships, law_article_references>>
linkVars    == <<lpc, lctx, lstats, lcount, lref, lev>>
passVars    == <<plist, lstart, pitems, pphase, pidx, plog>>
phaseVars   == <<phase, gather, analyst, batches>>
vars        == <<backend, arg, analyzer, result, rpc, attempt, callLog, rresult,
                 laws, law_articles, law_relationships, law_article_references,
                 lpc, lctx, lstats, lcount, lref, lev,
                 plist, lstart, pitems, pphase, pidx, plog,
                 phase, gather, analyst, batches>>

-----------------------------------------------------------------------------
(* Bounds of the model.                                                    *)

\* longest run of whitespace put before, inside and after a response
MaxPad == 1

\* longest list of cross-references handed to one linker call
MaxRefs == 1

-----------------------------------------------------------------------------
(* JSON values as Python sees them after json.loads.                       *)
(*   t   : "null" | "num" | "str" | "arr" | "obj"                          *)
(*   s   : the content of a string / a label for the content of a list     *)
(*   has : what `k in v` answers True for (substrings of a str, elements   *)
(*         of a list, keys of a dict)                                      *)
(*   m   : the members of a dict                                           *)

NoMembers == [k \in {} |-> 0]

Null == [t |-> "null", s |-> "", has |-> {}, m |-> NoMembers]

Num == [t |-> "num", s |-> "", has |-> {}, m |-> NoMembers]

Str(s) == [t |-> "str", s |-> s, has |-> {}, m |-> NoMembers]

\* a string in which the names of `keys` occur as substrings
StrWith(keys) == [t |-> "str", s |-> "prose", has |-> keys, m |-> NoMembers]

\* a list; `label` stands for its content ("" is the empty list)
Arr(label) == [t |-> "arr", s |-> label, has |-> {}, m |-> NoMembers]

\* a list of strings whose elements are `elems`
ArrOf(elems) == [t |-> "arr", s |-> "strings", has |-> elems, m |-> NoMembers]

EmptyList == Arr("")

Obj(members) == [t |-> "obj", s |-> "", has |-> DOMAIN members, m |-> members]

EmptyObj == Obj(NoMembers)

\* `k in v` raises TypeError on None and numbers
CanContain(v) == v.t \in {"str", "arr", "obj"}

PyIn(k, v) == k \in v.has

IsDict(v) == v.t = "obj"

IsList(v) == v.t = "arr"

\* v[k] = x on a dict
Put(v, k, x) == Obj([j \in (DOMAIN v.m) \cup {k} |-> IF j = k THEN x ELSE v.m[j]])

\* the dict without key k (used to build inputs only)
Drop(v, k) == Obj([j \in (DOMAIN v.m) \ {k} |-> v.m[j]])

-----------------------------------------------------------------------------
(* What an analyzer hands to its caller.                                   *)

Return(v) == [kind |-> "return", val |-> v, exc |-> ""]

Raise(e) == [kind |-> "raise", val |-> Null, exc |-> e]

NoResult == [kind |-> "none", val |-> Null, exc |-> ""]

\* outcome of a step that may raise inside a try block
Ok(v) == [ok |-> TRUE, val |-> v, exc |-> ""]

Err(e) == [ok |-> FALSE, val |-> Null, exc |-> e]

-----------------------------------------------------------------------------
(* Response text.  A text is a sequence of tokens: "WS" one whitespace     *)
(* character, "FENCE" the three backticks, "json" the four letters of the  *)
(* language tag, "VAL" the text of one complete JSON value, "TRUNC" a JSON *)
(* text cut short, "PROSE" words that are no JSON.                         *)

RECURSIVE LStrip(_)
LStrip(t) == IF t # <<>> /\ Head(t) = "WS" THEN LStrip(Tail(t)) ELSE t

RECURSIVE RStrip(_)
RStrip(t) ==
    IF t # <<>> /\ t[Len(t)] = "WS" THEN RStrip(SubSeq(t, 1, Len(t) - 1)) ELSE t

\* str.strip()
PyStrip(t) == RStrip(LStrip(t))

\* text.startswith('```json')
StartsWithJsonFence(t) == Len(t) >= 2 /\ t[1] = "FENCE" /\ t[2] = "json"

\* text.endswith('```')
EndsWithFence(t) == t # <<>> /\ t[Len(t)] = "FENCE"

\* if text.startswith('```json'): text = text[7:]
CutJsonFence(t) == IF StartsWithJsonFence(t) THEN SubSeq(t, 3, Len(t)) ELSE t

\* if text.endswith('```'): text = text[:-3]
CutEndFence(t) == IF EndsWithFence(t) THEN SubSeq(t, 1, Len(t) - 1) ELSE t

\* V5.0, V6, V4.2 and test_cross_refs.py: strip, cut, cut (no second strip)
CleanResponse(t) == CutEndFence(CutJsonFence(PyStrip(t)))

\* V1, V4 and document_analyzer: strip, cut, cut, strip
CleanResponseStrip(t) == PyStrip(CutEndFence(CutJsonFence(PyStrip(t))))

\* json.loads: optional whitespace, exactly one value, optional whitespace
JsonLoads(t, v) == IF PyStrip(t) = <<"VAL">> THEN Ok(v) ELSE Err("JSONDecodeError")

RECURSIVE Pad(_)
Pad(n) == IF n = 0 THEN <<>> ELSE <<"WS">> \o Pad(n - 1)

-----------------------------------------------------------------------------
(* Backend outcomes.                                                       *)
(*   kind "error": generate_content raises (err: "transport" | "r429")     *)
(*   kind "none" : the response carries no text (response.text is None)    *)
(*   kind "text" : response.text is `text`, whose VAL token denotes `val`  *)

ErrorOutcome(e) == [kind |-> "error", err |-> e, text |-> <<>>, val |-> Null]

NoTextOutcome == [kind |-> "none", err |-> "", text |-> <<>>, val |-> Null]

TextOutcome(t, v) == [kind |-> "text", err |-> "", text |-> t, val |-> v]

\* the literal "{}" that _call_gemini substitutes for a failed call
EmptyObjectText == TextOutcome(<<"VAL">>, EmptyObj)

\* KritisAnalyzer._call_gemini / DocumentAnalyzer._call_gemini: never raises
call_gemini(o) ==
    IF o.kind = "text" /\ o.text # <<>>
    THEN TextOutcome(PyStrip(o.text), o.val)
    ELSE EmptyObjectText

-----------------------------------------------------------------------------
(* Declared shapes, fallback values and the analyzers.                     *)

TagCategories == {"person", "organization", "concept"}

\* {"person": [], "organization": [], "concept": []}
EmptyTags == Obj([c \in TagCategories |-> EmptyList])

\* if k not in a: a[k] = d      (raises TypeError where Python does)
SetDefault(a, k, d) ==
    IF ~CanContain(a) THEN Err("TypeError")
    ELSE IF PyIn(k, a) THEN Ok(a)
    ELSE IF IsDict(a) THEN Ok(Put(a, k, d))
    ELSE Err("TypeError")

\* ---- Kritis V5.0: KritisAnalyzerV50._analyze_content_v50 ----

LangV50(title, summary) ==
    Obj([informal_summary_title |-> Str(title), informal_summary |-> Str(summary)])

FallbackV50 ==
    Obj([tags |-> EmptyTags,
         analysis |-> Obj([pt |-> LangV50("", ""), en |-> LangV50("", "")]),
         cross_references |-> EmptyList])

\* NormalizeV50 with the guard `if 'tags' not in analysis` lost: tags is
\* always reset to the empty default
NormalizeV50TagsReset(a) ==
    IF ~IsDict(a) THEN Err("TypeError")
    ELSE SetDefault(Put(a, "tags", EmptyTags), "cross_references", EmptyList)

NormalizeV50(a) ==
    LET s1 == SetDefault(a, "tags", EmptyTags)
    IN  IF ~s1.ok THEN s1 ELSE SetDefault(s1.val, "cross_references", EmptyList)

analyze_content_v50(o) ==
    IF o.kind # "text" THEN Return(FallbackV50)
    ELSE LET p == JsonLoads(CleanResponse(o.text), o.val)
         IN  IF ~p.ok THEN Return(FallbackV50)
             ELSE LET n == NormalizeV50(p.val)
                  IN  IF n.ok THEN Return(n.val) ELSE Return(FallbackV50)

\* ---- Kritis V6: KritisAnalyzerV6._analyze_content_v6_map ----

FallbackV6 ==
    Obj([tags |-> EmptyTags,
         informal_summary_title |-> Str(""),
         informal_summary |-> Str(""),
         cross_references |-> EmptyList])

NormalizeV6(a) ==
    LET s1 == SetDefault(a, "tags", EmptyTags)
        s2 == IF s1.ok THEN SetDefault(s1.val, "cross_references", EmptyList) ELSE s1
        s3 == IF s2.ok THEN SetDefault(s2.val, "informal_summary_title", Str("")) ELSE s2
    IN  IF s3.ok THEN SetDefault(s3.val, "informal_summary", Str("")) ELSE s3

analyze_content_v6_map(o) ==
    IF o.kind # "text" THEN Return(FallbackV6)
    ELSE LET p == JsonLoads(CleanResponse(o.text), o.val)
         IN  IF ~p.ok THEN Return(FallbackV6)
             ELSE LET n == NormalizeV6(p.val)
                  IN  IF n.ok THEN Return(n.val) ELSE Return(FallbackV6)

\* ---- Kritis V4.2: KritisAnalyzerV40._analyze_content_v42 ----

LangV42(title, summary, refs) ==
    Obj([informal_summary_title |-> Str(title),
         informal_summary |-> Str(summary),
         cross_references |-> refs])

FallbackV42 ==
    Obj([tags |-> EmptyTags,
         analysis |-> Obj([
             pt |-> LangV42("Analise indisponivel",
                            "Nao foi possivel analisar este conteudo automaticamente.",
                            EmptyList),
             en |-> LangV42("Analysis unavailable",
                            "Could not automatically analyze this content.",
                            EmptyList)])])

\* for category in [...]: missing or not a list -> []
NormalizeTagsV42(tags) ==
    Obj([c \in (DOMAIN tags.m) \cup TagCategories |->
            IF c \in TagCategories
            THEN IF c \in DOMAIN tags.m /\ IsList(tags.m[c]) THEN tags.m[c] ELSE EmptyList
            ELSE tags.m[c]])

NormalizeV42(a) ==
    LET s1 == SetDefault(a, "tags", EmptyTags)
    IN  IF ~s1.ok THEN s1
        ELSE IF ~IsDict(s1.val) THEN Err("TypeError")      \* analysis['tags'] on str / list
        ELSE IF ~IsDict(s1.val.m["tags"]) THEN Ok(Put(s1.val, "tags", EmptyTags))
        ELSE Ok(Put(s1.val, "tags", NormalizeTagsV42(s1.val.m["tags"])))

analyze_content_v42(o) ==
    IF o.kind # "text" THEN Return(FallbackV42)
    ELSE LET p == JsonLoads(CleanResponse(o.text), o.val)
         IN  IF ~p.ok THEN Return(FallbackV42)
             ELSE LET n == NormalizeV42(p.val)
                  IN  IF n.ok THEN Return(n.val) ELSE Return(FallbackV42)

\* ---- Kritis V1: KritisAnalyzer._analyze_chunk_with_kritis ----

SubkeysV1 == {"informal_summary_title", "informal_summary", "key_references"}

LangV1(title, summary, refs) ==
    Obj([informal_summary_title |-> Str(title),
         informal_summary |-> Str(summary),
         key_references |-> refs])

FallbackV1 ==
    Obj([pt |-> LangV1("Erro na analise",
                       "Nao foi possivel analisar este artigo devido a erro tecnico.",
                       EmptyList),
         en |-> LangV1("Analysis Error",
                       "Could not analyze this article due to technical error.",
                       EmptyList)])

\* the body of `for lang in required_keys` for one lang:
\* "ok", or the class of the exception it raises
CheckLangV1(a, lang) ==
    IF ~CanContain(a) THEN "TypeError"                  \* lang not in analysis_data
    ELSE IF ~PyIn(lang, a) THEN "ValueError"            \* raise ValueError(Missing language key)
    ELSE IF ~IsDict(a) THEN "TypeError"                 \* analysis_data[lang] on str / list
    ELSE IF ~CanContain(a.m[lang]) THEN "TypeError"     \* key not in lang_data
    ELSE IF \E k \in SubkeysV1 : ~PyIn(k, a.m[lang]) THEN "ValueError"
    ELSE "ok"

ValidateV1(a) ==
    LET c1 == CheckLangV1(a, "pt") IN IF c1 # "ok" THEN c1 ELSE CheckLangV1(a, "en")

analyze_chunk_with_kritis(o) ==
    LET r == call_gemini(o)
        p == JsonLoads(CleanResponseStrip(r.text), r.val)
    IN  IF ~p.ok THEN Return(FallbackV1)                \* except json.JSONDecodeError
        ELSE LET c == ValidateV1(p.val)
             IN  IF c = "ok" THEN Return(p.val)
                 ELSE IF c = "ValueError" THEN Return(FallbackV1)
                 ELSE Raise(c)                          \* not in the except clause

\* ---- Kritis V1: KritisAnalyzer._parse_json_response (after _call_gemini) ----

FallbackParse ==
    Obj([informal_summary_title |-> Str("Erro na analise"),
         informal_summary |-> Str("Nao foi possivel processar a resposta da IA.")])

parse_json_response(o) ==
    LET r == call_gemini(o)
        p == JsonLoads(CleanResponseStrip(r.text), r.val)
    IN  IF p.ok THEN Return(p.val) ELSE Return(FallbackParse)

\* ---- DocumentAnalyzer.run_map_phase.analyze_chunk ----

FallbackChunk(chunk_id, msg) ==
    Obj([chunk_id |-> Str(chunk_id),
         summary_pt |-> Str(msg),
         key_takeaway_pt |-> Str(msg),
         suggested_tags |-> Str("")])

FallbacksChunk(chunk_id) ==
    {FallbackChunk(chunk_id, "Erro na analise - resposta invalida"),
     FallbackChunk(chunk_id, "Erro na analise")}

\* mutant of analyze_chunk: the parsed response is returned as it came
analyze_chunk_unlabelled(o, chunk_id) ==
    LET r == call_gemini(o)
        p == JsonLoads(CleanResponseStrip(r.text), r.val)
    IN  IF ~p.ok
        THEN Return(FallbackChunk(chunk_id, "Erro na analise - resposta invalida"))
        ELSE IF IsDict(p.val)
        THEN Return(p.val)
        ELSE Return(FallbackChunk(chunk_id, "Erro na analise"))

analyze_chunk(o, chunk_id) ==
    LET r == call_gemini(o)
        p == JsonLoads(CleanResponseStrip(r.text), r.val)
    IN  IF ~p.ok                                        \* except json.JSONDecodeError
        THEN Return(FallbackChunk(chunk_id, "Erro na analise - resposta invalida"))
        ELSE IF IsDict(p.val)                           \* result['chunk_id'] = chunk['id']
        THEN Return(Put(p.val, "chunk_id", Str(chunk_id)))
        ELSE Return(FallbackChunk(chunk_id, "Erro na analise"))   \* except Exception

\* ---- Kritis V4: KritisAnalyzerV4._analyze_content_with_context ----

LangV4(title, summary) ==
    Obj([informal_summary_title |-> Str(title),
         informal_summary |-> Str(summary),
         key_dates |-> EmptyObj,
         key_entities |-> EmptyList,
         cross_references |-> EmptyList])

FallbackV4(article_number) ==
    Obj([article_number |-> Str(article_number),
         suggested_category_id |-> Str("ADMINISTRATIVE"),
         analysis |-> Obj([
             pt |-> LangV4("Conteudo nao processado",
                           "Este conteudo nao pode ser analisado automaticamente."),
             en |-> LangV4("Content not processed",
                           "This content could not be analyzed automatically.")])])

analyze_content_with_context(o, article_number) ==
    LET r == call_gemini(o)
        p == JsonLoads(CleanResponseStrip(r.text), r.val)
    IN  IF ~p.ok THEN Return(FallbackV4(article_number))
        ELSE IF ~IsDict(p.val) THEN Raise("TypeError")  \* analysis_data['article_number'] = ...
        ELSE Return(SetDefault(Put(p.val, "article_number", Str(article_number)),
                               "suggested_category_id", Str("ADMINISTRATIVE")).val)

-----------------------------------------------------------------------------
(* The responses the backend is made to give.                              *)

GoodTags == Obj([c \in TagCategories |-> Arr("names")])

GoodV50 ==
    Obj([tags |-> GoodTags,
         analysis |-> Obj([pt |-> LangV50("titulo", "resumo"),
                           en |-> LangV50("title", "summary")]),
         cross_references |-> Arr("refs")])

GoodV6 ==
    Obj([tags |-> GoodTags,
         informal_summary_title |-> Str("titulo"),
         informal_summary |-> Str("resumo"),
         cross_references |-> Arr("refs")])

GoodV42 ==
    Obj([tags |-> GoodTags,
         analysis |-> Obj([pt |-> LangV42("titulo", "resumo", Arr("refs")),
                           en |-> LangV42("title", "summary", Arr("refs"))])])

GoodV1 ==
    Obj([pt |-> LangV1("titulo", "resumo", Arr("refs")),
         en |-> LangV1("title", "summary", Arr("refs"))])

GoodChunk ==
    Obj([summary_pt |-> Str("resumo"),
         key_takeaway_pt |-> Str("ponto"),
         suggested_tags |-> Str("a, b")])

GoodV4(article_number) ==
    Obj([article_number |-> Str(article_number),
         suggested_category_id |-> Str("FISCAL"),
         analysis |-> Obj([pt |-> LangV4("titulo", "resumo"),
                           en |-> LangV4("title", "summary")])])

\* the article numbers / chunk ids a caller passes
CallerArgs == {"1", "2"}

GoodValues ==
    {GoodV50, GoodV6, GoodV42, GoodV1, GoodChunk} \cup {GoodV4(n) : n \in CallerArgs}

\* g with one top-level key missing, or with one top-level member a number
TopDrops(g) == {Drop(g, k) : k \in DOMAIN g.m}

TopRetypes(g) == {Put(g, k, Num) : k \in DOMAIN g.m}

\* g with one sub-key of its member `key` missing, or that sub-member a number
SubDrops(g, key) == {Put(g, key, Drop(g.m[key], c)) : c \in DOMAIN g.m[key].m}

SubRetypes(g, key) == {Put(g, key, Put(g.m[key], c, Num)) : c \in DOMAIN g.m[key].m}

NonObjects ==
    {Null, Num, EmptyObj,
     StrWith({}), StrWith({"tags", "cross_references"}), StrWith({"pt", "en"}),
     ArrOf({}), ArrOf({"tags", "cross_references"}), ArrOf({"pt", "en"})}

JsonValues ==
    GoodValues
    \cup UNION {TopDrops(g) : g \in GoodValues}
    \cup UNION {TopRetypes(g) : g \in GoodValues}
    \cup UNION {SubDrops(g, "tags") : g \in {GoodV50, GoodV6, GoodV42}}
    \cup SubRetypes(GoodV50, "tags")
    \cup SubDrops(GoodV1, "pt")
    \cup NonObjects

Openings == {<<>>, <<"FENCE">>, <<"FENCE", "json">>}

Closings == {<<>>, <<"FENCE">>}

\* bodies that carry no complete JSON value, and one that carries trailing prose
BadBodies == {<<>>, <<"PROSE">>, <<"TRUNC">>, <<"VAL", "PROSE">>}

Wrap(pre, open, inner, body, close, post) ==
    Pad(pre) \o open \o Pad(inner) \o body \o Pad(inner) \o close \o Pad(post)

Texts(bodies) ==
    {Wrap(pre, open, inner, body, close, post) :
        pre \in 0..MaxPad, open \in Openings, inner \in 0..MaxPad,
        body \in bodies, close \in Closings, post \in 0..MaxPad}

BackendOutcomes ==
    {ErrorOutcome("transport"), ErrorOutcome("r429"), NoTextOutcome}
    \cup {TextOutcome(t, v) : t \in Texts({<<"VAL">>}), v \in JsonValues}
    \cup {TextOutcome(t, GoodV50) : t \in Texts(BadBodies)}

-----------------------------------------------------------------------------
(* Extraction: one call of one analyzer on one backend outcome.            *)

RetryIdle == rpc = "idle" /\ attempt = 0 /\ callLog = <<>> /\ rresult = Null

\* the phases a specification does not follow
PhasesIdle == phase = <<>> /\ gather = <<>> /\ analyst = <<>> /\ batches = <<>>

\* the store and the linker while a specification does not use them
LinkIdle ==
    /\ laws = <<>>
    /\ law_articles = {}
    /\ law_relationships = {}
    /\ law_article_references = {}
    /\ lpc = "idle"
    /\ lctx = <<>>
    /\ lstats = <<>>
    /\ lcount = 0
    /\ lref = <<>>
    /\ lev = <<>>
    /\ plist = <<>>
    /\ lstart = <<>>
    /\ pitems = <<>>
    /\ pphase = "idle"
    /\ pidx = 0
    /\ plog = <<>>

InitExtract ==
    /\ backend \in BackendOutcomes
    /\ arg = ""
    /\ analyzer = "none"
    /\ result = NoResult
    /\ PhasesIdle
    /\ RetryIdle
    /\ LinkIdle

Ran(name, a, r) ==
    /\ analyzer = "none"
    /\ rpc = "idle"
    /\ analyzer' = name
    /\ arg' = a
    /\ result' = r
    /\ UNCHANGED <<phaseVars, backend, retryVars, storeVars, linkVars, passVars>>

AnalyzeContentV50 == Ran("v50", "", analyze_content_v50(backend))

AnalyzeContentV6Map == Ran("v6", "", analyze_content_v6_map(backend))

AnalyzeContentV42 == Ran("v42", "", analyze_content_v42(backend))

AnalyzeChunkWithKritis == Ran("v1", "", analyze_chunk_with_kritis(backend))

ParseJsonResponse == Ran("v1parse", "", parse_json_response(backend))

AnalyzeChunk == \E c \in CallerArgs : Ran("chunk", c, analyze_chunk(backend, c))

AnalyzeContentWithContext ==
    \E n \in CallerArgs : Ran("v4", n, analyze_content_with_context(backend, n))

NextExtract ==
    \/ AnalyzeContentV50
    \/ AnalyzeContentV6Map
    \/ AnalyzeContentV42
    \/ AnalyzeChunkWithKritis
    \/ ParseJsonResponse
    \/ AnalyzeChunk
    \/ AnalyzeContentWithContext

SpecExtract == InitExtract /\ [][NextExtract]_vars

-----------------------------------------------------------------------------
(* V6 map phase: one item through _analyze_content_v6_map_with_retry.      *)

\* max_retries: int = 3
MaxRetries == 3

\* what one backend call was, as the wrapper's caller can tell
CallClass(o) == IF o.kind = "error" THEN o.err ELSE o.kind

InitRetry ==
    /\ backend = NoTextOutcome
    /\ arg = ""
    /\ analyzer = "v6retry"
    /\ result = NoResult
    /\ PhasesIdle
    /\ rpc = "call"
    /\ attempt = 0
    /\ callLog = <<>>
    /\ rresult = Null
    /\ LinkIdle

\* one iteration of `for attempt in range(max_retries)`: the call of
\* _analyze_content_v6_map, and the except clause with its sleep and continue
MapWithRetryAttempt ==
    /\ rpc = "call"
    /\ attempt < MaxRetries
    /\ \E o \in BackendOutcomes :
        LET r == analyze_content_v6_map(o)
        IN  /\ backend' = o
            /\ callLog' = Append(callLog, CallClass(o))
            /\ IF r.kind = "return"
               THEN rpc' = "done" /\ rresult' = r.val /\ attempt' = attempt
               ELSE IF r.exc = "r429" /\ attempt < MaxRetries - 1
               THEN rpc' = "call" /\ rresult' = rresult /\ attempt' = attempt + 1
               ELSE rpc' = "raised" /\ rresult' = rresult /\ attempt' = attempt
    /\ UNCHANGED <<phaseVars, arg, analyzer, result, storeVars, linkVars, passVars>>

NextRetry == MapWithRetryAttempt

SpecRetry == InitRetry /\ [][NextRetry]_vars

-----------------------------------------------------------------------------
(* Declared shapes (the JSON structure each prompt asks for).              *)

IsStr(v) == v.t = "str"

HasKeys(v, keys) == IsDict(v) /\ keys \subseteq DOMAIN v.m

ConformsTags(v) ==
    HasKeys(v, TagCategories) /\ \A c \in TagCategories : IsList(v.m[c])

ConformsLang(v, strs, lists) ==
    /\ HasKeys(v, strs \cup lists)
    /\ \A k \in strs : IsStr(v.m[k])
    /\ \A k \in lists : IsList(v.m[k])

ConformsV50(v) ==
    /\ HasKeys(v, {"tags", "analysis", "cross_references"})
    /\ ConformsTags(v.m["tags"])
    /\ HasKeys(v.m["analysis"], {"pt", "en"})
    /\ \A l \in {"pt", "en"} :
          ConformsLang(v.m["analysis"].m[l],
                       {"informal_summary_title", "informal_summary"}, {})
    /\ IsList(v.m["cross_references"])

ConformsV1(v) ==
    /\ HasKeys(v, {"pt", "en"})
    /\ \A l \in {"pt", "en"} :
          ConformsLang(v.m[l], {"informal_summary_title", "informal_summary"},
                       {"key_references"})

ConformsV4(v) ==
    /\ HasKeys(v, {"article_number", "suggested_category_id", "analysis"})
    /\ IsStr(v.m["article_number"])
    /\ IsStr(v.m["suggested_category_id"])
    /\ HasKeys(v.m["analysis"], {"pt", "en"})
    /\ \A l \in {"pt", "en"} :
          /\ ConformsLang(v.m["analysis"].m[l],
                          {"informal_summary_title", "informal_summary"},
                          {"key_entities", "cross_references"})
          /\ HasKeys(v.m["analysis"].m[l], {"key_dates"})
          /\ IsDict(v.m["analysis"].m[l].m["key_dates"])

Conforms(name, v) ==
    CASE name = "v50" -> ConformsV50(v)
      [] name = "v1" -> ConformsV1(v)
      [] name = "v4" -> ConformsV4(v)
      [] OTHER -> FALSE

RequiredKeys(name) ==
    CASE name = "v50" -> {"tags", "analysis", "cross_references"}
      [] name = "v6" -> {"tags", "informal_summary_title", "informal_summary",
                         "cross_references"}
      [] name = "v42" -> {"tags", "analysis"}
      [] name = "v1" -> {"pt", "en"}
      [] name = "v4" -> {"article_number", "suggested_category_id", "analysis"}
      [] name = "chunk" -> {"summary_pt", "key_takeaway_pt", "suggested_tags"}
      [] OTHER -> {"informal_summary_title", "informal_summary"}

\* the fallback value(s) of an analyzer
Fallbacks(name, a) ==
    CASE name = "v50" -> {FallbackV50}
      [] name = "v6" -> {FallbackV6}
      [] name = "v42" -> {FallbackV42}
      [] name = "v1" -> {FallbackV1}
      [] name = "v4" -> {FallbackV4(a)}
      [] name = "chunk" -> FallbacksChunk(a)
      [] OTHER -> {FallbackParse}

HasToken(t, tok) == \E i \in 1..Len(t) : t[i] = tok

\* the response text is one JSON value, with at most whitespace around it
ResponseIsJson(o) == o.kind = "text" /\ PyStrip(o.text) = <<"VAL">>

\* the call failed, gave no text, or gave text that is no JSON
\* (empty, truncated, prose, JSON followed by prose)
BackendFailed(o) ==
    \/ o.kind \in {"error", "none"}
    \/ o.kind = "text" /\ (~HasToken(o.text, "VAL") \/ HasToken(o.text, "PROSE"))

\* the response is one JSON value inside a code fence, with or without the
\* language tag and with any whitespace around the fence markers
ResponseIsFenced(o) ==
    /\ o.kind = "text"
    /\ \E pre \in 0..MaxPad, open \in Openings \ {<<>>},
          inner \in 0..MaxPad, post \in 0..MaxPad :
          o.text = Wrap(pre, open, inner, <<"VAL">>, <<"FENCE">>, post)

-----------------------------------------------------------------------------
(* Claims about extraction.                                                *)

\* C1: whatever the backend does, extraction returns (never raises) and the
\* value returned is an object that conforms to the declared shape.
\* Stated for _analyze_content_v50 and _analyze_chunk_with_kritis.
C1_ReturnsConformingNeverRaises ==
    analyzer \in {"v50", "v1"} =>
        result.kind = "return" /\ Conforms(analyzer, result.val)

\* C2: when the backend call fails, gives no text, or gives text that is not
\* valid JSON, the extraction result is exactly the fallback value.
C2_FailureGivesFallback ==
    (analyzer \in {"chunk", "v1parse", "v1"} /\ BackendFailed(backend)) =>
        result.kind = "return" /\ result.val \in Fallbacks(analyzer, arg)

\* C3: a valid JSON object that lacks a required top-level key is discarded:
\* extraction returns the fallback value.
C3_MissingKeyGivesFallback ==
    (/\ analyzer \in {"v50", "v6", "v1"}
     /\ ResponseIsJson(backend)
     /\ IsDict(backend.val)
     /\ ~(RequiredKeys(analyzer) \subseteq DOMAIN backend.val.m)) =>
        result.kind = "return" /\ result.val \in Fallbacks(analyzer, arg)

\* the responses C4 is about: every required top-level key present, and tags
\* an object of lists that lacks exactly the category c
LacksTagCategory(name, v, c) ==
    /\ HasKeys(v, RequiredKeys(name))
    /\ IsDict(v.m["tags"])
    /\ DOMAIN v.m["tags"].m = TagCategories \ {c}
    /\ \A d \in TagCategories \ {c} : IsList(v.m["tags"].m[d])

\* C4: a valid JSON object with every required top-level key but without one
\* of the list sub-fields tags.person / tags.organization / tags.concept is
\* returned with that sub-field equal to [] and everything else unchanged.
C4_MissingSubListDefaulted ==
    \A c \in TagCategories :
        (/\ analyzer \in {"v42", "v50"}
         /\ ResponseIsJson(backend)
         /\ LacksTagCategory(analyzer, backend.val, c)) =>
            result = Return(Put(backend.val, "tags",
                                Put(backend.val.m["tags"], c, EmptyList)))

\* C5 as stated: a response that is a valid JSON object of the declared shape
\* is returned deep-equal to the parsed response.
C5_IdentityOnConforming ==
    (/\ analyzer \in {"v50", "v4"}
     /\ ResponseIsJson(backend)
     /\ Conforms(analyzer, backend.val)) =>
        result = Return(backend.val)

\* C5 as amended: _analyze_content_v50 returns the parsed response deep-equal;
\* _analyze_content_with_context returns it with article_number set to the
\* caller's article number and every other key unchanged.
C5_IdentityUpToArticleNumber ==
    (/\ analyzer \in {"v50", "v4"}
     /\ ResponseIsJson(backend)
     /\ Conforms(analyzer, backend.val)) =>
        IF analyzer = "v50"
        THEN result = Return(backend.val)
        ELSE result = Return(Put(backend.val, "article_number", Str(arg)))

\* V4 ran on a conforming response whose article_number is not the caller's
C5_Witness ==
    /\ analyzer = "v4"
    /\ ResponseIsJson(backend)
    /\ ConformsV4(backend.val)
    /\ backend.val.m["article_number"] # Str(arg)
    /\ result.kind = "return"

\* C6: a shape-valid JSON object inside a code fence (tagged or untagged,
\* any whitespace around the fence) gives the same result as the same object
\* sent without the fence.
C6_FencedSameAsUnfenced ==
    (/\ analyzer = "v50"
     /\ ResponseIsFenced(backend)
     /\ ConformsV50(backend.val)) =>
        result = Return(backend.val)

\* C7: in the V6 map phase a rate-limited call is repeated, up to 3 calls per
\* item: the wrapper stops only after a call that was not rate-limited or
\* after the third call, and three rate-limited calls give the fallback.
C7_RateLimitRetried ==
    rpc \in {"done", "raised"} =>
        /\ callLog[Len(callLog)] = "r429" => Len(callLog) = MaxRetries
        /\ (\A i \in 1..Len(callLog) : callLog[i] = "r429") =>
               rpc = "done" /\ rresult = FallbackV6

-----------------------------------------------------------------------------
(* The store and the knowledge-graph linker.                               *)
(* Strings (slug, official number, URL, article designator) are sequences  *)
(* of characters; an absent or empty value is <<>> (both are falsy in the  *)
(* code).  A date is <<day>>, an unknown date <<>>.                        *)

SetMax(S) == CHOOSE x \in S : \A y \in S : y <= x

\* re.search(r'/([^/]+)$', url): what follows the last "/", <<>> for no match
SlugOfUrl(url) ==
    LET slashes == {i \in 1..Len(url) : url[i] = "/"}
    IN  IF slashes = {} THEN <<>>
        ELSE SubSeq(url, SetMax(slashes) + 1, Len(url))

Lower(c) == IF c = "A" THEN "a" ELSE c

\* SQL: value ILIKE pattern  (% any run of characters, _ any one character,
\* letters compared without case)
RECURSIVE ILike(_, _)
ILike(pattern, value) ==
    IF pattern = <<>> THEN value = <<>>
    ELSE IF Head(pattern) = "%"
    THEN ILike(Tail(pattern), value) \/ (value # <<>> /\ ILike(pattern, Tail(value)))
    ELSE /\ value # <<>>
         /\ (Head(pattern) = "_" \/ Lower(Head(pattern)) = Lower(Head(value)))
         /\ ILike(Tail(pattern), Tail(value))

\* value contains needle as a substring
Contains(value, needle) ==
    \E i \in 0..(Len(value) - Len(needle)) : SubSeq(value, i + 1, i + Len(needle)) = needle

\* response.data[0] of a query, as a list of at most one row
First(rows) == IF rows = <<>> THEN <<>> ELSE <<rows[1]>>

\* mutant of find_target_law_v50: the number is tried before the URL
find_target_law_number_first(table, url, number, raises) ==
    LET slug == SlugOfUrl(url)
        BySlug(r) == r.slug = slug
        Exact(r) == r.official_number = number
        Partial(r) == ILike(<<"%">> \o number \o <<"%">>, r.official_number)
        bySlug == IF url # <<>> /\ slug # <<>> THEN SelectSeq(table, BySlug) ELSE <<>>
        exact == IF number # <<>> THEN SelectSeq(table, Exact) ELSE <<>>
        partial == IF number # <<>> THEN SelectSeq(table, Partial) ELSE <<>>
    IN  IF raises THEN <<>>
        ELSE IF exact # <<>> THEN First(exact)
        ELSE IF partial # <<>> THEN First(partial)
        ELSE First(bySlug)

\* KritisAnalyzerV50._find_target_law_v50; `raises`: the store raises on the
\* first lookup.  The result is <<row>> or <<>> (None).
find_target_law_v50(table, url, number, raises) ==
    LET slug == SlugOfUrl(url)
        BySlug(r) == r.slug = slug
        Exact(r) == r.official_number = number
        Partial(r) == ILike(<<"%">> \o number \o <<"%">>, r.official_number)
        bySlug == IF url # <<>> /\ slug # <<>> THEN SelectSeq(table, BySlug) ELSE <<>>
        exact == IF number # <<>> THEN SelectSeq(table, Exact) ELSE <<>>
        partial == IF number # <<>> THEN SelectSeq(table, Partial) ELSE <<>>
    IN  IF raises THEN <<>>
        ELSE IF bySlug # <<>> THEN First(bySlug)
        ELSE IF exact # <<>> THEN First(exact)
        ELSE First(partial)

\* KritisAnalyzerV6._find_target_law
find_target_law(table, url, number, raises) ==
    LET slug == SlugOfUrl(url)
        BySlug(r) == r.slug = slug
        Exact(r) == r.official_number = number
        bySlug == IF url # <<>> /\ slug # <<>> THEN SelectSeq(table, BySlug) ELSE <<>>
        exact == IF number # <<>> THEN SelectSeq(table, Exact) ELSE <<>>
    IN  IF raises THEN <<>>
        ELSE IF bySlug # <<>> THEN First(bySlug)
        ELSE First(exact)

DigitChars == {"0", "1", "2", "3", "4", "5", "6", "7", "8", "9"}

DigitValue(c) ==
    CASE c = "0" -> 0 [] c = "1" -> 1 [] c = "2" -> 2 [] c = "3" -> 3 [] c = "4" -> 4
      [] c = "5" -> 5 [] c = "6" -> 6 [] c = "7" -> 7 [] c = "8" -> 8 [] c = "9" -> 9

\* int() of the leading run of digits of t, continuing from acc
RECURSIVE DigitRun(_, _)
DigitRun(t, acc) ==
    IF t # <<>> /\ Head(t) \in DigitChars
    THEN DigitRun(Tail(t), 10 * acc + DigitValue(Head(t)))
    ELSE acc

\* int(re.search(r'(\d+)', article_number).group(1)), -1 for no match
RECURSIVE FirstInteger(_)
FirstInteger(t) ==
    IF t = <<>> THEN -1
    ELSE IF Head(t) \in DigitChars THEN DigitRun(t, 0)
    ELSE FirstInteger(Tail(t))

\* mutant of find_target_article_v50: the status filter is lost
find_target_article_any_status(articles, target_law_id, article_number, raises) ==
    LET order == FirstInteger(article_number)
        found == {a \in articles : /\ a.law_id = target_law_id
                                   /\ a.article_order = order}
    IN  IF raises \/ order = -1 \/ found = {} THEN ""
        ELSE (CHOOSE a \in found : TRUE).id

\* mutant of find_target_article_v50: articles that are no longer in force
\* are found as well
find_target_article_in_force_or_not(articles, target_law_id, article_number, raises) ==
    LET order == FirstInteger(article_number)
        found == {a \in articles : /\ a.law_id = target_law_id
                                   /\ a.article_order = order
                                   /\ a.status_id \in {"ACTIVE", "SUPERSEDED", "REVOKED"}}
    IN  IF raises \/ order = -1 \/ found = {} THEN ""
        ELSE (CHOOSE a \in found : TRUE).id

\* _find_target_article_v50 / _find_target_article: the id of the ACTIVE
\* article of the law with that ordinal, "" for None
find_target_article_v50(articles, target_law_id, article_number, raises) ==
    LET order == FirstInteger(article_number)
        found == {a \in articles : /\ a.law_id = target_law_id
                                   /\ a.article_order = order
                                   /\ a.status_id = "ACTIVE"}
    IN  IF raises \/ order = -1 \/ found = {} THEN ""
        ELSE (CHOOSE a \in found : TRUE).id

\* (enactment - timedelta(days=1)).isoformat()
DayBefore(date) == <<date[1] - 1>>

\* mutant of update_target_article_status_v50: valid_to is the enactment day
\* itself
update_target_article_status_same_day(articles, target_article_id, relationship, source_enactment_date, raises) ==
    IF raises \/ relationship \notin {"revokes", "amends"} THEN articles
    ELSE {IF a.id = target_article_id
          THEN [a EXCEPT !.status_id = IF relationship = "revokes"
                                       THEN "REVOKED" ELSE "SUPERSEDED",
                         !.valid_to = source_enactment_date]
          ELSE a : a \in articles}

\* mutant of update_target_article_status_v50: the update also moves the
\* article to ordinal 0
update_target_article_status_and_order(articles, target_article_id, relationship, source_enactment_date, raises) ==
    IF raises \/ relationship \notin {"revokes", "amends"} THEN articles
    ELSE {IF a.id = target_article_id
          THEN [a EXCEPT !.status_id = IF relationship = "revokes"
                                       THEN "REVOKED" ELSE "SUPERSEDED",
                         !.valid_to = DayBefore(source_enactment_date),
                         !.article_order = 0]
          ELSE a : a \in articles}

\* _update_target_article_status_v50 / _update_target_article_status
update_target_article_status_v50(articles, target_article_id, relationship, source_enactment_date, raises) ==
    IF raises \/ relationship \notin {"revokes", "amends"} THEN articles
    ELSE {IF a.id = target_article_id
          THEN [a EXCEPT !.status_id = IF relationship = "revokes"
                                       THEN "REVOKED" ELSE "SUPERSEDED",
                         !.valid_to = DayBefore(source_enactment_date)]
          ELSE a : a \in articles}

\* ref.get('relationship', 'cites'): a missing key is 'cites', a JSON null
\* stays None ("NULL")
RelationshipOf(ref) == IF ref.relationship = "ABSENT" THEN "cites" ELSE ref.relationship

\* relationship.upper()
Upper(relationship) ==
    CASE relationship = "cites" -> "CITES"
      [] relationship = "amends" -> "AMENDS"
      [] relationship = "revokes" -> "REVOKES"
      [] relationship = "references_internal" -> "REFERENCES_INTERNAL"
      [] relationship = "modifies" -> "MODIFIES"

\* the sanity check: source_enactment_date < target_enactment_date
TemporalWarning(relationship, source_date, target_date) ==
    /\ relationship \in {"amends", "revokes"}
    /\ source_date # <<>>
    /\ target_date # <<>>
    /\ source_date[1] < target_date[1]

\* an entry of cross_references that is not a JSON object: ref.get raises
\* AttributeError
NotADict ==
    [relationship |-> "NOT_A_DICT", url |-> <<>>, number |-> <<>>,
     article_number |-> <<>>]

\* if not ref_url and not ref_number: continue
IsInternalReference(ref) == ref.url = <<>> /\ ref.number = <<>>

\* table(...).insert(row).execute() raises: the store is unreachable, or the
\* row already exists (the unique constraint on the link tables)
InsertRaises(rows, row, unreachable) == unreachable \/ row \in rows

\* what one loop iteration leaves behind; exc names an exception that leaves
\* the loop ("": none, every exception is caught inside the loop body)
Iteration(articles, rels, arefs, law_inc, art_inc, ev) ==
    [law_articles |-> articles, law_relationships |-> rels,
     law_article_references |-> arefs, law_inc |-> law_inc, art_inc |-> art_inc,
     ev |-> ev, exc |-> ""]

Event(fault, skipped, target, law_inserted, article, article_inserted, updated, warned) ==
    [fault |-> fault, skipped |-> skipped, target_law_id |-> target,
     law_inserted |-> law_inserted, target_article_id |-> article,
     article_inserted |-> article_inserted, status_updated |-> updated,
     warned |-> warned]

Skipped(articles, rels, arefs, fault, why) ==
    Iteration(articles, rels, arefs, 0, 0,
              Event(fault, why, "", FALSE, "", FALSE, FALSE, FALSE))

\* mutant of LinkArticleReference: an internal reference is linked as a
\* reference to the source law itself instead of being skipped
LinkArticleReferenceInternalToSelf(found, sanity, articles, rels, arefs, ctx, ref, fault) ==
    LET relationship == RelationshipOf(ref)
        target == IF IsInternalReference(ref)
                  THEN [id |-> ctx.source_law_id,
                        enactment_date |-> ctx.source_enactment_date]
                  ELSE found[1]
        lawRow == [source_law_id |-> ctx.source_law_id,
                   target_law_id |-> target.id,
                   relationship_type |-> Upper(relationship)]
        lawOk == relationship # "NULL" /\ ~InsertRaises(rels, lawRow, fault = "insert_law")
    IN  IF ~IsInternalReference(ref) /\ found = <<>>
        THEN Skipped(articles, rels, arefs, fault, "unresolved")
        ELSE Iteration(articles, IF lawOk THEN rels \cup {lawRow} ELSE rels, arefs,
                       IF lawOk THEN 1 ELSE 0, 0,
                       Event(fault, "", target.id, lawOk, "", FALSE, FALSE, FALSE))

\* mutant of LinkArticleReference: a reference that fails the temporal sanity
\* check is skipped instead of being linked with a warning
LinkArticleReferenceRejectsViolation(found, sanity, articles, rels, arefs, ctx, ref, fault) ==
    LET relationship == RelationshipOf(ref)
        target == found[1]
        lawRow == [source_law_id |-> ctx.source_law_id,
                   target_law_id |-> target.id,
                   relationship_type |-> Upper(relationship)]
        lawOk == relationship # "NULL" /\ ~InsertRaises(rels, lawRow, fault = "insert_law")
    IN  IF IsInternalReference(ref) THEN Skipped(articles, rels, arefs, fault, "internal")
        ELSE IF found = <<>> THEN Skipped(articles, rels, arefs, fault, "unresolved")
        ELSE IF TemporalWarning(relationship, ctx.source_enactment_date,
                                target.enactment_date)
        THEN Iteration(articles, rels, arefs, 0, 0,
                       Event(fault, "", target.id, FALSE, "", FALSE, FALSE, TRUE))
        ELSE Iteration(articles, IF lawOk THEN rels \cup {lawRow} ELSE rels, arefs,
                       IF lawOk THEN 1 ELSE 0, 0,
                       Event(fault, "", target.id, lawOk, "", FALSE, FALSE, FALSE))

\* mutant of LinkArticleReference: the counters are incremented before the
\* inserts, so a rejected insert is counted too
LinkArticleReferenceCountsAttempts(found, sanity, articles, rels, arefs, ctx, ref, fault) ==
    LET relationship == RelationshipOf(ref)
        target == found[1]
        lawRow == [source_law_id |-> ctx.source_law_id,
                   target_law_id |-> target.id,
                   relationship_type |-> Upper(relationship)]
        lawOk == relationship # "NULL" /\ ~InsertRaises(rels, lawRow, fault = "insert_law")
        artId == IF ref.article_number # <<>>
                 THEN find_target_article_v50(articles, target.id, ref.article_number,
                                              fault = "find_article")
                 ELSE ""
        artRow == [source_article_id |-> ctx.source_article_id,
                   target_article_id |-> artId,
                   reference_type |-> Upper(relationship)]
        artOk == /\ artId # ""
                 /\ relationship # "NULL"
                 /\ ~InsertRaises(arefs, artRow, fault = "insert_article")
        updates == /\ artOk
                   /\ relationship \in {"amends", "revokes"}
                   /\ ctx.source_enactment_date # <<>>
        articles2 == IF updates
                     THEN update_target_article_status_v50(
                              articles, artId, relationship,
                              ctx.source_enactment_date, fault = "update_article")
                     ELSE articles
    IN  IF ref = NotADict THEN Skipped(articles, rels, arefs, fault, "exception")
        ELSE IF IsInternalReference(ref)
        THEN Skipped(articles, rels, arefs, fault, "internal")
        ELSE IF found = <<>> THEN Skipped(articles, rels, arefs, fault, "unresolved")
        ELSE Iteration(articles2,
                       IF lawOk THEN rels \cup {lawRow} ELSE rels,
                       IF artOk THEN arefs \cup {artRow} ELSE arefs,
                       1,
                       IF artId # "" THEN 1 ELSE 0,
                       Event(fault, "", target.id, lawOk, artId, artOk,
                             articles2 # articles, FALSE))

\* The body of `for ref in cross_references` of _process_and_link_references
\* (V5.0 and V6), after the target law lookup gave `found`.  `sanity` tells
\* whether the function has the temporal sanity check (V5.0 has, V6 has not).
\* The whole body is inside try / except Exception: continue.
LinkArticleReference(found, sanity, articles, rels, arefs, ctx, ref, fault) ==
    LET relationship == RelationshipOf(ref)
        target == found[1]
        warned == sanity /\ TemporalWarning(relationship, ctx.source_enactment_date,
                                            target.enactment_date)
        \* A) law-to-law relationship
        lawRow == [source_law_id |-> ctx.source_law_id,
                   target_law_id |-> target.id,
                   relationship_type |-> Upper(relationship)]
        lawOk == relationship # "NULL" /\ ~InsertRaises(rels, lawRow, fault = "insert_law")
        \* B) article-to-article relationship
        artId == IF ref.article_number # <<>>
                 THEN find_target_article_v50(articles, target.id, ref.article_number,
                                              fault = "find_article")
                 ELSE ""
        artRow == [source_article_id |-> ctx.source_article_id,
                   target_article_id |-> artId,
                   reference_type |-> Upper(relationship)]
        artOk == /\ artId # ""
                 /\ relationship # "NULL"
                 /\ ~InsertRaises(arefs, artRow, fault = "insert_article")
        \* C) target article status
        updates == /\ artOk
                   /\ relationship \in {"amends", "revokes"}
                   /\ ctx.source_enactment_date # <<>>
        articles2 == IF updates
                     THEN update_target_article_status_v50(
                              articles, artId, relationship,
                              ctx.source_enactment_date, fault = "update_article")
                     ELSE articles
    IN  IF ref = NotADict THEN Skipped(articles, rels, arefs, fault, "exception")
        ELSE IF IsInternalReference(ref)
        THEN Skipped(articles, rels, arefs, fault, "internal")
        ELSE IF found = <<>> THEN Skipped(articles, rels, arefs, fault, "unresolved")
        ELSE Iteration(articles2,
                       IF lawOk THEN rels \cup {lawRow} ELSE rels,
                       IF artOk THEN arefs \cup {artRow} ELSE arefs,
                       IF lawOk THEN 1 ELSE 0,
                       IF artOk THEN 1 ELSE 0,
                       Event(fault, "", target.id, lawOk, artId, artOk,
                             articles2 # articles, warned))

\* mutant of LinkPreambleReference: the loop body has no try block, so the
\* AttributeError of a malformed entry leaves the loop
LinkPreambleReferenceUnguarded(found, sanity, articles, rels, arefs, ctx, ref, fault) ==
    LET relationship == RelationshipOf(ref)
        target == found[1]
        lawRow == [source_law_id |-> ctx.source_law_id,
                   target_law_id |-> target.id,
                   relationship_type |-> Upper(relationship)]
        lawOk == ~InsertRaises(rels, lawRow, fault = "insert_law")
    IN  IF ref = NotADict
        THEN [Skipped(articles, rels, arefs, fault, "exception")
                EXCEPT !.exc = "AttributeError"]
        ELSE IF IsInternalReference(ref)
        THEN Skipped(articles, rels, arefs, fault, "internal")
        ELSE IF found = <<>> THEN Skipped(articles, rels, arefs, fault, "unresolved")
        ELSE IF relationship = "NULL"
        THEN [Skipped(articles, rels, arefs, fault, "exception")
                EXCEPT !.exc = "AttributeError"]
        ELSE Iteration(articles, IF lawOk THEN rels \cup {lawRow} ELSE rels, arefs,
                       IF lawOk THEN 1 ELSE 0, 0,
                       Event(fault, "", target.id, lawOk, "", FALSE, FALSE, FALSE))

\* The body of `for ref in cross_references` of _process_preamble_references
\* (V5.0 and V6), after the target law lookup gave `found`.
LinkPreambleReference(found, sanity, articles, rels, arefs, ctx, ref, fault) ==
    LET relationship == RelationshipOf(ref)
        target == found[1]
        warned == sanity /\ TemporalWarning(relationship, ctx.source_enactment_date,
                                            target.enactment_date)
        lawRow == [source_law_id |-> ctx.source_law_id,
                   target_law_id |-> target.id,
                   relationship_type |-> Upper(relationship)]
        lawOk == relationship # "NULL" /\ ~InsertRaises(rels, lawRow, fault = "insert_law")
    IN  IF ref = NotADict THEN Skipped(articles, rels, arefs, fault, "exception")
        ELSE IF IsInternalReference(ref)
        THEN Skipped(articles, rels, arefs, fault, "internal")
        ELSE IF found = <<>> THEN Skipped(articles, rels, arefs, fault, "unresolved")
        ELSE Iteration(articles, IF lawOk THEN rels \cup {lawRow} ELSE rels, arefs,
                       IF lawOk THEN 1 ELSE 0, 0,
                       Event(fault, "", target.id, lawOk, "", FALSE, FALSE, warned))

\* one iteration of each of the four loops
process_and_link_references_v50(table, articles, rels, arefs, ctx, ref, fault) ==
    LinkArticleReference(
        find_target_law_v50(table, ref.url, ref.number, fault = "find_law"),
        TRUE, articles, rels, arefs, ctx, ref, fault)

process_preamble_references_v50(table, articles, rels, arefs, ctx, ref, fault) ==
    LinkPreambleReference(
        find_target_law_v50(table, ref.url, ref.number, fault = "find_law"),
        TRUE, articles, rels, arefs, ctx, ref, fault)

process_and_link_references_v6(table, articles, rels, arefs, ctx, ref, fault) ==
    LinkArticleReference(
        find_target_law(table, ref.url, ref.number, fault = "find_law"),
        FALSE, articles, rels, arefs, ctx, ref, fault)

process_preamble_references_v6(table, articles, rels, arefs, ctx, ref, fault) ==
    LinkPreambleReference(
        find_target_law(table, ref.url, ref.number, fault = "find_law"),
        FALSE, articles, rels, arefs, ctx, ref, fault)

\* one iteration of the loop of function fn
IterationOf(fn, table, articles, rels, arefs, ctx, ref, fault) ==
    CASE fn = "article_v50" ->
            process_and_link_references_v50(table, articles, rels, arefs, ctx, ref, fault)
      [] fn = "preamble_v50" ->
            process_preamble_references_v50(table, articles, rels, arefs, ctx, ref, fault)
      [] fn = "article_v6" ->
            process_and_link_references_v6(table, articles, rels, arefs, ctx, ref, fault)
      [] fn = "preamble_v6" ->
            process_preamble_references_v6(table, articles, rels, arefs, ctx, ref, fault)

\* the articles and link tables, and what a call returns
Outcome(articles, rels, arefs, law_count, art_count, exc) ==
    [law_articles |-> articles, law_relationships |-> rels,
     law_article_references |-> arefs,
     stats |-> [law_relationships |-> law_count, article_references |-> art_count],
     exc |-> exc]

\* a whole call of one of the four functions: `for ref in cross_references`
\* from the outcome acc on, each entry of list a reference and the store
\* operation that raises while it is processed
RECURSIVE RunLoop(_, _, _, _, _)
RunLoop(fn, table, ctx, acc, list) ==
    IF list = <<>> \/ acc.exc # "" THEN acc
    ELSE LET it == IterationOf(fn, table, acc.law_articles, acc.law_relationships,
                               acc.law_article_references, ctx,
                               Head(list).ref, Head(list).fault)
         IN  RunLoop(fn, table, ctx,
                     Outcome(it.law_articles, it.law_relationships,
                             it.law_article_references,
                             acc.stats.law_relationships + it.law_inc,
                             acc.stats.article_references + it.art_inc,
                             it.exc),
                     Tail(list))

\* law_relationships = 0; article_references = 0; for ...; return {...}
RunCall(fn, table, ctx, articles, rels, arefs, list) ==
    RunLoop(fn, table, ctx, Outcome(articles, rels, arefs, 0, 0, ""), list)

-----------------------------------------------------------------------------
(* Knowledge-graph linker: one call of one of the four reference loops on  *)
(* a store that already holds two earlier laws and the law being ingested. *)

Law(id, slug, number, date) ==
    [id |-> id, slug |-> slug, official_number |-> number, enactment_date |-> date]

Article(id, law_id, order, status) ==
    [id |-> id, law_id |-> law_id, article_order |-> order, status_id |-> status,
     valid_to |-> <<>>]

\* the law being ingested may carry no enactment date
SourceDates == {<<>>, <<2>>, <<3>>}

\* official numbers of the two earlier laws
TargetNumbers == { <<<<"A", "4", "1">>, <<"4", "1">>>>,
                   <<<<"A", "4", "1">>, <<"7">>>> }

\* table laws, in either row order: L1 enacted before the source law, L2 after
\* it or on the same day
LawTables ==
    UNION { LET L1 == Law("L1", <<"x">>, n[1], <<1>>)
                L2 == Law("L2", <<"y">>, n[2], <<3>>)
                S  == Law("S", <<"s">>, <<"9">>, d)
            IN  { <<L1, L2, S>>, <<L2, L1, S>> }
            : n \in TargetNumbers, d \in SourceDates }

\* table law_articles: article 5 of L1 is active, article 5 of L2 is revoked,
\* and the source article has just been inserted by the caller
InitialArticles ==
    { Article("A1", "L1", 5, "ACTIVE"),
      Article("A2", "L2", 5, "REVOKED"),
      Article("SA", "S", 1, "ACTIVE") }

\* table law_relationships: empty, or holding a link of an earlier run
InitialRelationships ==
    { {}, {[source_law_id |-> "S", target_law_id |-> "L1",
            relationship_type |-> "CITES"]} }

\* table law_article_references: empty, or holding an article link of an
\* earlier run whose status update did not happen
InitialReferences(relationships) ==
    IF relationships = {} THEN { {} }
    ELSE { {}, {[source_article_id |-> "SA", target_article_id |-> "A1",
                 reference_type |-> "AMENDS"]} }

Reference(relationship, url, number, article_number) ==
    [relationship |-> relationship, url |-> url, number |-> number,
     article_number |-> article_number]

RefUrls == { <<>>, <<"d", "/", "x">>, <<"d", "/", "x", "/">>, <<"d", "/", "z">> }

RefNumbers == { <<>>, <<"4", "1">>, <<"a", "4", "1">> }

RefArticles == { <<>>, <<"a", "5">> }

\* entries of a cross_references list; the special ones have no relationship
\* key, a null relationship, a relationship outside the four enumerated
\* kinds, a designator without a digit, and a designator of no article
Refs ==
    { Reference(r, u, n, a) : r \in {"cites", "amends", "revokes"},
                              u \in RefUrls, n \in RefNumbers, a \in RefArticles }
    \cup { Reference("ABSENT", <<"d", "/", "x">>, <<>>, <<"a", "5">>),
           Reference("NULL", <<"d", "/", "x">>, <<>>, <<"a", "5">>),
           Reference("modifies", <<"d", "/", "x">>, <<>>, <<"a", "5">>),
           Reference("amends", <<"d", "/", "x">>, <<>>, <<"a">>),
           Reference("amends", <<"d", "/", "x">>, <<>>, <<"6">>) }

\* the store operation that raises during the call, if any
Faults == {"none", "find_law", "insert_law", "find_article", "insert_article",
           "update_article"}

LinkFunctions == {"article_v50", "preamble_v50", "article_v6", "preamble_v6"}

SourceLaw == CHOOSE i \in 1..Len(laws) : laws[i].id = "S"

\* the graph pass and the call arguments while a specification does not
\* follow them
PassIdle ==
    /\ plist = <<>>
    /\ lstart = <<>>
    /\ pitems = <<>>
    /\ pphase = "idle"
    /\ pidx = 0
    /\ plog = <<>>

InitLink ==
    /\ backend = NoTextOutcome
    /\ arg = ""
    /\ analyzer = "linker"
    /\ result = NoResult
    /\ PhasesIdle
    /\ RetryIdle
    /\ laws \in LawTables
    /\ law_articles = InitialArticles
    /\ law_relationships \in InitialRelationships
    /\ law_article_references \in InitialReferences(law_relationships)
    /\ lpc = "idle"
    /\ lctx = <<>>
    /\ lstats = <<>>
    /\ lcount = 0
    /\ lref = <<>>
    /\ lev = <<>>
    /\ PassIdle

\* the caller enters one of the loops with the source ids and enactment date
LinkCall ==
    /\ analyzer = "linker"
    /\ lpc = "idle"
    /\ \E fn \in LinkFunctions, fault \in Faults :
        lctx' = [fn |-> fn, fault |-> fault,
                 source_article_id |-> "SA",
                 source_law_id |-> "S",
                 source_enactment_date |-> laws[SourceLaw].enactment_date]
    /\ lstats' = [law_relationships |-> 0, article_references |-> 0]
    /\ lpc' = "loop"
    /\ UNCHANGED <<phaseVars, lcount, lref, lev, laws, law_articles, law_relationships,
                   law_article_references, extractVars, retryVars, passVars>>

\* one iteration of `for ref in cross_references`
LoopIteration(fn, ref, it) ==
    /\ lpc = "loop"
    /\ lctx.fn = fn
    /\ lcount < MaxRefs
    /\ lcount' = lcount + 1
    /\ lref' = ref
    /\ lev' = it.ev
    /\ law_articles' = it.law_articles
    /\ law_relationships' = it.law_relationships
    /\ law_article_references' = it.law_article_references
    /\ lstats' = [law_relationships |-> lstats.law_relationships + it.law_inc,
                  article_references |-> lstats.article_references + it.art_inc]
    /\ lpc' = IF it.exc = "" THEN "loop" ELSE "raised"
    /\ UNCHANGED <<phaseVars, lctx, laws, extractVars, retryVars, passVars>>

ProcessAndLinkReferencesV50 ==
    \E ref \in Refs :
        LoopIteration("article_v50", ref,
            process_and_link_references_v50(laws, law_articles, law_relationships,
                law_article_references, lctx, ref, lctx.fault))

ProcessPreambleReferencesV50 ==
    \E ref \in Refs :
        LoopIteration("preamble_v50", ref,
            process_preamble_references_v50(laws, law_articles, law_relationships,
                law_article_references, lctx, ref, lctx.fault))

ProcessAndLinkReferencesV6 ==
    \E ref \in Refs :
        LoopIteration("article_v6", ref,
            process_and_link_references_v6(laws, law_articles, law_relationships,
                law_article_references, lctx, ref, lctx.fault))

ProcessPreambleReferencesV6 ==
    \E ref \in Refs :
        LoopIteration("preamble_v6", ref,
            process_preamble_references_v6(laws, law_articles, law_relationships,
                law_article_references, lctx, ref, lctx.fault))

\* the list is exhausted: return the counters
LinkReturn ==
    /\ lpc = "loop"
    /\ lpc' = "returned"
    /\ UNCHANGED <<phaseVars, lctx, lstats, lcount, lref, lev, storeVars, extractVars, retryVars,
                   passVars>>

NextLink ==
    \/ LinkCall
    \/ ProcessAndLinkReferencesV50
    \/ ProcessPreambleReferencesV50
    \/ ProcessAndLinkReferencesV6
    \/ ProcessPreambleReferencesV6
    \/ LinkReturn

SpecLink == InitLink /\ [][NextLink]_vars

-----------------------------------------------------------------------------
(* Claims about the linker.                                                *)

\* lref and lev describe a loop iteration that has run
Processed == lpc # "idle" /\ lcount > 0

\* the number names the law: it is its official number, or a part of it
Identifies(number, law) ==
    /\ number # <<>>
    /\ \/ law.official_number = number
       \/ Contains(law.official_number, number)

LinkRow(target_law_id, relationship) ==
    [source_law_id |-> lctx.source_law_id, target_law_id |-> target_law_id,
     relationship_type |-> Upper(relationship)]

\* the last reference carries a URL ending in the slug of laws[i] and a
\* number that names another law laws[j]
UrlAndNumberDisagree(i, j) ==
    /\ i # j
    /\ lref.url # <<>>
    /\ SlugOfUrl(lref.url) = laws[i].slug
    /\ Identifies(lref.number, laws[j])

\* C8: when a reference carries a URL whose final path segment is the slug of
\* an existing law A and a number that names a different existing law B, the
\* law-level link made for it targets A: the reference resolves to A unless
\* the lookup itself fails, a link inserted for it is a link to A, and when no
\* lookup or insert fails the link to A is in the store afterwards.
C8_UrlTakesPriority ==
    Processed =>
        \A i, j \in 1..Len(laws) :
            UrlAndNumberDisagree(i, j) =>
                /\ lev.target_law_id \in {laws[i].id, ""}
                /\ lev.target_law_id = "" => lev.fault = "find_law"
                /\ lev.law_inserted => lev.target_law_id = laws[i].id
                /\ (lev.fault \notin {"find_law", "insert_law"}
                        /\ RelationshipOf(lref) # "NULL")
                   => LinkRow(laws[i].id, RelationshipOf(lref)) \in law_relationships

\* a reference whose URL names L1 and whose number names L2 has been linked
C8_Witness ==
    /\ Processed
    /\ \E i, j \in 1..Len(laws) :
        /\ UrlAndNumberDisagree(i, j)
        /\ laws[j].official_number = lref.number
        /\ lev.law_inserted
        /\ lev.target_law_id = laws[i].id

\* the last reference has no URL that resolves, and carries a number
ResolvedByNumber ==
    /\ Processed
    /\ lev.fault = "none"
    /\ lref.number # <<>>
    /\ \/ lref.url = <<>>
       \/ \A i \in 1..Len(laws) : laws[i].slug # SlugOfUrl(lref.url)

LawIds(P(_)) == { laws[i].id : i \in { k \in 1..Len(laws) : P(laws[k]) } }

\* C9: a reference that is resolved by its number resolves to a law whose
\* official number equals it when there is one, otherwise to a law whose
\* official number contains it when there is one, and is left unresolved only
\* when there is neither.
C9_NumberExactThenPartial ==
    ResolvedByNumber =>
        LET Exact(l) == l.official_number = lref.number
            Partial(l) == Contains(l.official_number, lref.number)
        IN  IF LawIds(Exact) # {} THEN lev.target_law_id \in LawIds(Exact)
            ELSE IF LawIds(Partial) # {} THEN lev.target_law_id \in LawIds(Partial)
            ELSE lev.target_law_id = ""

\* C10: a loop iteration on a reference with neither URL nor number creates no
\* law link and no article link, changes no article, counts nothing, and the
\* loop goes on, whatever the relationship and the article designator are.
C10_InternalReferenceSkipped ==
    [][ (lcount' = lcount + 1 /\ IsInternalReference(lref'))
            => /\ UNCHANGED storeVars
               /\ UNCHANGED lstats
               /\ lpc' = "loop" ]_vars

\* an internal reference that amends or revokes a designated article has been
\* through the article loop
C10_Witness ==
    /\ Processed
    /\ lctx.fn \in {"article_v50", "article_v6"}
    /\ lctx.fault = "none"
    /\ IsInternalReference(lref)
    /\ lref.article_number # <<>>
    /\ RelationshipOf(lref) \in {"amends", "revokes"}
    /\ lev.skipped = "internal"

\* enactment date of the law the last reference resolved to
TargetDate ==
    laws[CHOOSE i \in 1..Len(laws) : laws[i].id = lev.target_law_id].enactment_date

\* C11: when an amends or revokes reference resolves to a law, the law-level
\* link to that law is in the store afterwards unless the insert itself
\* raises, whatever the order of the two enactment dates is: a temporal
\* violation does not prevent the link.
C11_LinkDespiteTemporalViolation ==
    (/\ Processed
     /\ RelationshipOf(lref) \in {"amends", "revokes"}
     /\ lev.target_law_id # ""
     /\ lev.fault # "insert_law")
        => LinkRow(lev.target_law_id, RelationshipOf(lref)) \in law_relationships

\* an amends or revokes reference to a law enacted after the source law was
\* warned about and linked
C11_Witness ==
    /\ Processed
    /\ lev.warned
    /\ lev.law_inserted
    /\ lctx.source_enactment_date[1] < TargetDate[1]

\* C12: for a reference that resolves to a law, the temporal warning is logged
\* exactly when the relationship is amends or revokes, both enactment dates
\* are known and the source date is not strictly later than the target date
\* (equal dates included), in every loop.
C12_WarningExactlyWhenNotLater ==
    (Processed /\ lev.target_law_id # "") =>
        (lev.warned <=>
            /\ RelationshipOf(lref) \in {"amends", "revokes"}
            /\ lctx.source_enactment_date # <<>>
            /\ TargetDate # <<>>
            /\ ~(lctx.source_enactment_date[1] > TargetDate[1]))

\* a step is one iteration of one of the two article loops
ArticleIteration == lcount' = lcount + 1 /\ lctx.fn \in {"article_v50", "article_v6"}

\* the article link the iteration is to make to article a
ArticleLinkRow(a) ==
    [source_article_id |-> lctx.source_article_id, target_article_id |-> a.id,
     reference_type |-> Upper(RelationshipOf(lref'))]

\* C13: in the article loops, for a reference with an article designator that
\* resolves to a law (no store operation raising, the relationship a string):
\* the target article is the ACTIVE article of that law whose article_order is
\* the first integer of the designator; when there is one, the link from the
\* source article to it with the upper-cased relationship is in the store
\* afterwards and nothing else was added; when the designator has no integer
\* or no ACTIVE article has that order, no article link is added.
C13_ArticleLinkToActiveOrdinal ==
    [][ (/\ ArticleIteration
         /\ lref'.article_number # <<>>
         /\ lev'.target_law_id # ""
         /\ lev'.fault = "none"
         /\ RelationshipOf(lref') # "NULL")
        => LET order == FirstInteger(lref'.article_number)
               cands == {a \in law_articles : /\ a.law_id = lev'.target_law_id
                                              /\ a.article_order = order
                                              /\ a.status_id = "ACTIVE"}
               added == law_article_references' \ law_article_references
           IN  IF order = -1 \/ cands = {}
               THEN added = {} /\ lev'.target_article_id = ""
               ELSE \E a \in cands :
                       /\ lev'.target_article_id = a.id
                       /\ ArticleLinkRow(a) \in law_article_references'
                       /\ added \subseteq {ArticleLinkRow(a)} ]_vars

\* article 5 of L1 has been linked from the source article
C13_Witness ==
    /\ Processed
    /\ lctx.fn \in {"article_v50", "article_v6"}
    /\ lev.fault = "none"
    /\ lref.article_number = <<"a", "5">>
    /\ lev.target_article_id = "A1"
    /\ lev.article_inserted

C17_DuplicateTreatedAsSuccess ==
    [][ (/\ ArticleIteration
         /\ lev'.fault = "none"
         /\ lev'.target_law_id # ""
         /\ lref'.article_number # <<>>
         /\ RelationshipOf(lref') # "NULL")
        => LET relationship == RelationshipOf(lref')
               date == lctx.source_enactment_date
               cands == {a \in law_articles :
                            /\ a.law_id = lev'.target_law_id
                            /\ a.article_order = FirstInteger(lref'.article_number)
                            /\ a.status_id = "ACTIVE"}
           IN  \A a \in cands :
                 /\ LinkRow(lev'.target_law_id, relationship) \in law_relationships
                        => ArticleLinkRow(a) \in law_article_references'
                 /\ (/\ ArticleLinkRow(a) \in law_article_references
                     /\ relationship \in {"amends", "revokes"}
                     /\ date # <<>>)
                        => [a EXCEPT !.status_id = IF relationship = "revokes"
                                                   THEN "REVOKED" ELSE "SUPERSEDED",
                                     !.valid_to = <<date[1] - 1>>] \in law_articles'
      ]_vars

\* the four enumerated relationship kinds, as stored
StoredKinds == {"CITES", "AMENDS", "REVOKES", "REFERENCES_INTERNAL"}

\* C20: every stored link has one of the four enumerated kinds, and a
\* reference whose relationship is missing or is none of the four kinds is
\* stored as CITES.
C20_StoredKindsEnumerated ==
    /\ \A r \in law_relationships : r.relationship_type \in StoredKinds
    /\ \A r \in law_article_references : r.reference_type \in StoredKinds
    /\ (/\ Processed
        /\ lev.law_inserted
        /\ lref.relationship \notin {"cites", "amends", "revokes", "references_internal"})
       => LinkRow(lev.target_law_id, "cites") \in law_relationships

-----------------------------------------------------------------------------
(* One call of a reference loop on a given cross_references list.          *)

\* longest cross_references list of a call whose list is followed entry by
\* entry
MaxList == 2

\* table laws of these calls: L1 numbered A41, L2 numbered 41
CallTables ==
    { <<Law("L1", <<"x">>, <<"A", "4", "1">>, <<1>>),
        Law("L2", <<"y">>, <<"4", "1">>, <<3>>),
        Law("S", <<"s">>, <<"9">>, d)>> : d \in {<<>>, <<2>>} }

\* the entries a list is made of
ListRefs ==
    { Reference("cites", <<"d", "/", "x">>, <<>>, <<"a", "5">>),
      Reference("amends", <<"d", "/", "x">>, <<>>, <<"a", "5">>),
      Reference("revokes", <<>>, <<"4", "1">>, <<>>),
      Reference("amends", <<>>, <<>>, <<"a", "5">>),
      Reference("NULL", <<"d", "/", "x">>, <<>>, <<"a", "5">>),
      NotADict }

\* the store operation that raises while an entry is processed: a lookup, an
\* insert or the status update
ListFaults == {"none", "find_law", "insert_law", "insert_article", "update_article"}

\* a reference of the list, and the store operation that raises while it is
\* processed
ListEntries == [ref : ListRefs, fault : ListFaults]

CallLists == UNION { [1..n -> ListEntries] : n \in 0..MaxList }

Snapshot ==
    [law_articles |-> law_articles, law_relationships |-> law_relationships,
     law_article_references |-> law_article_references]

InitCall ==
    /\ backend = NoTextOutcome
    /\ arg = ""
    /\ analyzer = "list"
    /\ result = NoResult
    /\ PhasesIdle
    /\ RetryIdle
    /\ laws \in CallTables
    /\ law_articles = InitialArticles
    /\ law_relationships = {}
    /\ law_article_references = {}
    /\ lpc = "idle"
    /\ lctx = <<>>
    /\ lstats = <<>>
    /\ lcount = 0
    /\ lref = <<>>
    /\ lev = <<>>
    /\ PassIdle

\* the caller enters one of the loops with the source ids, the enactment date
\* and the list
ListCall ==
    /\ analyzer = "list"
    /\ lpc = "idle"
    /\ \E fn \in LinkFunctions :
        lctx' = [fn |-> fn, fault |-> "none",
                 source_article_id |-> "SA",
                 source_law_id |-> "S",
                 source_enactment_date |-> laws[SourceLaw].enactment_date]
    /\ plist' \in CallLists
    /\ lstart' = Snapshot
    /\ lstats' = [law_relationships |-> 0, article_references |-> 0]
    /\ lpc' = "loop"
    /\ UNCHANGED <<phaseVars, lcount, lref, lev, storeVars, extractVars, retryVars,
                   pitems, pphase, pidx, plog>>

\* one iteration of `for ref in cross_references` on the next entry
ListIteration ==
    /\ analyzer = "list"
    /\ lpc = "loop"
    /\ lcount < Len(plist)
    /\ LET entry == plist[lcount + 1]
           it == IterationOf(lctx.fn, laws, law_articles, law_relationships,
                             law_article_references, lctx, entry.ref, entry.fault)
       IN  /\ lcount' = lcount + 1
           /\ lref' = entry.ref
           /\ lev' = it.ev
           /\ law_articles' = it.law_articles
           /\ law_relationships' = it.law_relationships
           /\ law_article_references' = it.law_article_references
           /\ lstats' = [law_relationships |-> lstats.law_relationships + it.law_inc,
                         article_references |-> lstats.article_references + it.art_inc]
           /\ lpc' = IF it.exc = "" THEN "loop" ELSE "raised"
    /\ UNCHANGED <<phaseVars, lctx, laws, extractVars, retryVars, passVars>>

\* the list is exhausted: return the counters
ListReturn ==
    /\ analyzer = "list"
    /\ lpc = "loop"
    /\ lcount = Len(plist)
    /\ lpc' = "returned"
    /\ UNCHANGED <<phaseVars, lctx, lstats, lcount, lref, lev, storeVars, extractVars, retryVars,
                   passVars>>

NextCall ==
    \/ ListCall
    \/ ListIteration
    \/ ListReturn

SpecCall == InitCall /\ [][NextCall]_vars

-----------------------------------------------------------------------------
(* Claims about whole calls.                                               *)

\* a call on the list has returned, and no store operation raised in it
ReturnedClean ==
    /\ analyzer = "list"
    /\ lpc = "returned"
    /\ \A i \in 1..Len(plist) : plist[i].fault = "none"

NoStats == [law_relationships |-> 0, article_references |-> 0]

\* the outcome o has the articles and link tables of the current state
SameStore(o) ==
    /\ o.law_articles = law_articles
    /\ o.law_relationships = law_relationships
    /\ o.law_article_references = law_article_references

\* C15: after a call in which no store operation raised, a second call with
\* the same source ids and the same list, on the store as the first call left
\* it, adds no link row, changes no article and returns zero for both
\* counters.
C15_SecondCallAddsNothing ==
    ReturnedClean =>
        LET again == RunCall(lctx.fn, laws, lctx, law_articles, law_relationships,
                             law_article_references, plist)
        IN  /\ SameStore(again)
            /\ again.stats = NoStats
            /\ again.exc = ""

\* a first call that made a law link and an article link and updated the
\* target article has returned
C15_Witness ==
    /\ ReturnedClean
    /\ lctx.fn \in {"article_v50", "article_v6"}
    /\ lstats.law_relationships > 0
    /\ lstats.article_references > 0
    /\ law_articles # lstart.law_articles

\* the list without its i-th entry
Without(list, i) == SubSeq(list, 1, i - 1) \o SubSeq(list, i + 1, Len(list))

\* the call from its start up to and including the first n entries
Prefix(n) ==
    RunCall(lctx.fn, laws, lctx, lstart.law_articles, lstart.law_relationships,
            lstart.law_article_references, SubSeq(plist, 1, n))

\* processing the i-th entry failed (a store operation raised, or the entry
\* is malformed) and nothing was written for it
FailedEntry(i) ==
    /\ \/ plist[i].fault # "none"
       \/ plist[i].ref = NotADict
       \/ plist[i].ref.relationship = "NULL"
    /\ Prefix(i).law_articles = Prefix(i - 1).law_articles
    /\ Prefix(i).law_relationships = Prefix(i - 1).law_relationships
    /\ Prefix(i).law_article_references = Prefix(i - 1).law_article_references
    /\ Prefix(i).stats = Prefix(i - 1).stats

Orders(n) == { f \in [1..n -> 1..n] : \A i, j \in 1..n : f[i] = f[j] => i = j }

\* C18: after a call in which no store operation raised, the store holds the
\* same law links, article links and articles as the same call would have
\* left from the same start on any reordering of the list.
C18_OrderIndependent ==
    ReturnedClean =>
        \A f \in Orders(Len(plist)) :
            SameStore(RunCall(lctx.fn, laws, lctx, lstart.law_articles,
                              lstart.law_relationships, lstart.law_article_references,
                              [i \in 1..Len(plist) |-> plist[f[i]]]))

-----------------------------------------------------------------------------
(* The graph pass over the analysis results of one law:                    *)
(* _process_articles_with_relationships_v50.                               *)

\* the references the analysis of an item carries
BuildRefs ==
    { Reference("cites", <<"d", "/", "x">>, <<>>, <<"a", "5">>),
      Reference("amends", <<"d", "/", "x">>, <<>>, <<"a", "5">>),
      Reference("revokes", <<>>, <<"4", "1">>, <<>>) }

BuildLists == UNION { [1..n -> [ref : BuildRefs, fault : {"none"}]] : n \in 0..MaxList }

\* analysis_item: content_type, article_order, analysis['cross_references']
Item(content_type, article_order, cross_references) ==
    [content_type |-> content_type, article_order |-> article_order,
     cross_references |-> cross_references]

\* analysis_results: a preamble (order 0) and up to two articles, the preamble
\* first, last or in between
BuildItems ==
    { <<Item("preamble", 0, p)>> : p \in BuildLists }
    \cup { <<Item("article", 1, a)>> : a \in BuildLists }
    \cup { <<Item("preamble", 0, p), Item("article", 1, a)>> :
               p \in BuildLists, a \in BuildLists }
    \cup { <<Item("article", 1, a), Item("preamble", 0, p)>> :
               p \in BuildLists, a \in BuildLists }
    \cup { <<Item("article", 1, a), Item("preamble", 0, p), Item("article", 2, b)>> :
               p \in BuildLists, a \in BuildLists, b \in BuildLists }

\* article_id = str(uuid.uuid4()): a fresh id for each article
NewArticleId(article_order) == IF article_order = 1 THEN "SA" ELSE "SB"

\* the arguments of a linker call of the pass
BuildContext(fn, source_article_id) ==
    [fn |-> fn, fault |-> "none",
     source_article_id |-> source_article_id,
     source_law_id |-> "S",
     source_enactment_date |-> laws[SourceLaw].enactment_date]

\* mutant of PreambleCall: the preamble references go through the article
\* loop
PreambleCallAsArticle(table, ctx, articles, rels, arefs, list) ==
    RunCall("article_v50", table, ctx, articles, rels, arefs, list)

\* stats = self._process_preamble_references(law_id, law_enactment_date, cross_refs)
PreambleCall(table, ctx, articles, rels, arefs, list) ==
    RunCall("preamble_v50", table, ctx, articles, rels, arefs, list)

\* stats = self._process_and_link_references(article_id, law_id, ...)
ArticleCall(table, ctx, articles, rels, arefs, list) ==
    RunCall("article_v50", table, ctx, articles, rels, arefs, list)

InitBuild ==
    /\ backend = NoTextOutcome
    /\ arg = ""
    /\ analyzer = "build"
    /\ result = NoResult
    /\ PhasesIdle
    /\ RetryIdle
    /\ laws \in CallTables
    /\ law_articles = { Article("A1", "L1", 5, "ACTIVE"),
                        Article("A2", "L2", 5, "REVOKED") }
    /\ law_relationships = {}
    /\ law_article_references = {}
    /\ lpc = "idle"
    /\ lctx = <<>>
    /\ lstats = [law_relationships |-> 0, article_references |-> 0]
    /\ lcount = 0
    /\ lref = <<>>
    /\ lev = <<>>
    /\ plist = <<>>
    /\ lstart = <<>>
    /\ pitems \in BuildItems
    /\ pphase = "articles"
    /\ pidx = 0
    /\ plog = <<>>

\* the pass has applied the outcome o of a linker call for an item
Applied(o, content_type) ==
    /\ law_articles' = o.law_articles
    /\ law_relationships' = o.law_relationships
    /\ law_article_references' = o.law_article_references
    /\ lstats' = [law_relationships |->
                      lstats.law_relationships + o.stats.law_relationships,
                  article_references |->
                      lstats.article_references + o.stats.article_references]
    /\ plog' = Append(plog, content_type)
    /\ pidx' = pidx + 1
    /\ UNCHANGED <<phaseVars, laws, lpc, lctx, lcount, lref, lev, plist, lstart, pitems, pphase,
                   extractVars, retryVars>>

\* the pass moves to the next item without a linker call
Passed ==
    /\ pidx' = pidx + 1
    /\ UNCHANGED <<phaseVars, storeVars, linkVars, plist, lstart, pitems, pphase, plog,
                   extractVars, retryVars>>

\* first loop, an article: insert the law_articles row, then link its
\* references
ProcessArticleItem ==
    /\ analyzer = "build"
    /\ pphase = "articles"
    /\ pidx < Len(pitems)
    /\ pitems[pidx + 1].content_type = "article"
    /\ LET item == pitems[pidx + 1]
           article_id == NewArticleId(item.article_order)
           row == Article(article_id, "S", item.article_order, "ACTIVE")
       IN  Applied(ArticleCall(laws, BuildContext("article_v50", article_id),
                               law_articles \cup {row}, law_relationships,
                               law_article_references, item.cross_references),
                   "article")

\* first loop, not an article: continue
SkipPreambleItem ==
    /\ analyzer = "build"
    /\ pphase = "articles"
    /\ pidx < Len(pitems)
    /\ pitems[pidx + 1].content_type # "article"
    /\ Passed

\* the first loop is over: start the second one
StartPreambleLoop ==
    /\ analyzer = "build"
    /\ pphase = "articles"
    /\ pidx = Len(pitems)
    /\ pphase' = "preamble"
    /\ pidx' = 0
    /\ UNCHANGED <<phaseVars, storeVars, linkVars, plist, lstart, pitems, plog,
                   extractVars, retryVars>>

\* second loop, a preamble with references: link them
ProcessPreambleItem ==
    /\ analyzer = "build"
    /\ pphase = "preamble"
    /\ pidx < Len(pitems)
    /\ pitems[pidx + 1].content_type = "preamble"
    /\ pitems[pidx + 1].cross_references # <<>>
    /\ Applied(PreambleCall(laws, BuildContext("preamble_v50", ""),
                            law_articles, law_relationships,
                            law_article_references,
                            pitems[pidx + 1].cross_references),
               "preamble")

\* second loop, an article or a preamble without references
SkipItem ==
    /\ analyzer = "build"
    /\ pphase = "preamble"
    /\ pidx < Len(pitems)
    /\ \/ pitems[pidx + 1].content_type # "preamble"
       \/ pitems[pidx + 1].cross_references = <<>>
    /\ Passed

\* return the two counters
BuildReturn ==
    /\ analyzer = "build"
    /\ pphase = "preamble"
    /\ pidx = Len(pitems)
    /\ pphase' = "done"
    /\ UNCHANGED <<phaseVars, storeVars, linkVars, plist, lstart, pitems, pidx, plog,
                   extractVars, retryVars>>

NextBuild ==
    \/ ProcessArticleItem
    \/ SkipPreambleItem
    \/ StartPreambleLoop
    \/ ProcessPreambleItem
    \/ SkipItem
    \/ BuildReturn

SpecBuild == InitBuild /\ [][NextBuild]_vars

\* the article items of analysis_results
ArticleItems == { i \in 1..Len(pitems) : pitems[i].content_type = "article" }

\* C19: in one graph pass, a preamble's references are linked only after the
\* references of every article item have been linked, and linking a
\* preamble's references adds law links only: it changes no article and adds
\* no article link, whatever designator and relationship they carry.
C19_PreambleLastAndLawLinksOnly ==
    /\ [](analyzer = "build" =>
            \A j \in 1..Len(plog) :
                plog[j] = "preamble" =>
                    /\ \A k \in j..Len(plog) : plog[k] = "preamble"
                    /\ Cardinality(ArticleItems) = j - 1)
    /\ [][ (analyzer = "build" /\ pphase = "preamble")
            => UNCHANGED <<law_articles, law_article_references>> ]_vars

\* a preamble listed before the article, with an amends reference to article
\* 5 of L1, was linked after the article and left that article ACTIVE
C19_Witness ==
    /\ analyzer = "build"
    /\ pphase = "done"
    /\ Len(pitems) = 2
    /\ pitems[1].content_type = "preamble"
    /\ \E i \in 1..Len(pitems[1].cross_references) :
        /\ pitems[1].cross_references[i].ref.relationship = "amends"
        /\ pitems[1].cross_references[i].ref.article_number # <<>>
    /\ plog = <<"article", "preamble">>
    /\ [source_law_id |-> "S", target_law_id |-> "L1",
        relationship_type |-> "AMENDS"] \in law_relationships
    /\ Article("A1", "L1", 5, "ACTIVE") \in law_articles
    /\ laws[SourceLaw].enactment_date # <<>>

-----------------------------------------------------------------------------
(* The graph builder phase: run_knowledge_graph_builder_phase of V5.0 and  *)
(* V6, with the whole graph pass and the tag aggregation as one step.      *)

\* max_retries = 1
max_retries == 1

\* runs of the phase for the source that a behaviour follows
MaxRuns == 2

\* a row of table laws with the source it was ingested from
WithSource(law, source_id) ==
    [id |-> law.id, slug |-> law.slug, official_number |-> law.official_number,
     enactment_date |-> law.enactment_date, source_id |-> source_id]

\* str(uuid.uuid4()) of a law: an id no row of the table carries
LawIdPool == {"S", "T", "U"}

NewLawId(table) ==
    CHOOSE id \in LawIdPool : \A i \in 1..Len(table) : table[i].id # id

\* table('laws').select('id').eq('source_id', source_id): positions of the rows
ExistingLaws(table, source_id) ==
    { i \in 1..Len(table) : table[i].source_id = source_id }

\* the rows of a sequence other than those with the id
RECURSIVE RowsWithout(_, _)
RowsWithout(table, id) ==
    IF table = <<>> THEN <<>>
    ELSE IF Head(table).id = id THEN RowsWithout(Tail(table), id)
    ELSE <<Head(table)>> \o RowsWithout(Tail(table), id)

\* mutant of DeleteLawAndChildren: the children go, the law row stays
DeleteChildrenOnly(store, id) ==
    [laws |-> store.laws,
     law_articles |-> { a \in store.law_articles : a.law_id # id },
     law_relationships |-> { r \in store.law_relationships : r.source_law_id # id },
     law_article_references |-> store.law_article_references]

\* rpc delete_law_and_children / delete_law_by_law_id: the law, its articles,
\* and the links that start or end at the law or at one of its articles
DeleteLawAndChildren(store, id) ==
    LET gone == { a.id : a \in { x \in store.law_articles : x.law_id = id } }
    IN  [laws |-> RowsWithout(store.laws, id),
         law_articles |-> { a \in store.law_articles : a.law_id # id },
         law_relationships |->
             { r \in store.law_relationships :
                 r.source_law_id # id /\ r.target_law_id # id },
         law_article_references |->
             { r \in store.law_article_references :
                 r.source_article_id \notin gone /\ r.target_article_id \notin gone }]

\* the arguments of a linker call of the pass for the law
PassContext(fn, source_article_id, law) ==
    [fn |-> fn, fault |-> "none",
     source_article_id |-> source_article_id,
     source_law_id |-> law.id,
     source_enactment_date |-> law.enactment_date]

\* the linker functions of a version
ArticleFn(version) == IF version = "v50" THEN "article_v50" ELSE "article_v6"

PreambleFn(version) == IF version = "v50" THEN "preamble_v50" ELSE "preamble_v6"

\* the outcome acc with the rows and counters of the linker call o added
Added(acc, o) ==
    Outcome(o.law_articles, o.law_relationships, o.law_article_references,
            acc.stats.law_relationships + o.stats.law_relationships,
            acc.stats.article_references + o.stats.article_references, "")

\* first loop of the pass over the items: insert each article, link its
\* references
RECURSIVE ArticleLoop(_, _, _, _, _)
ArticleLoop(version, table, law, acc, items) ==
    IF items = <<>> THEN acc
    ELSE IF Head(items).content_type # "article"
    THEN ArticleLoop(version, table, law, acc, Tail(items))
    ELSE LET item == Head(items)
             article_id == NewArticleId(item.article_order)
             row == Article(article_id, law.id, item.article_order, "ACTIVE")
             o == RunCall(ArticleFn(version), table,
                          PassContext(ArticleFn(version), article_id, law),
                          acc.law_articles \cup {row}, acc.law_relationships,
                          acc.law_article_references, item.cross_references)
         IN  ArticleLoop(version, table, law, Added(acc, o), Tail(items))

\* second loop of the pass: link the references of each preamble that has any
RECURSIVE PreambleLoop(_, _, _, _, _)
PreambleLoop(version, table, law, acc, items) ==
    IF items = <<>> THEN acc
    ELSE IF Head(items).content_type # "preamble" \/ Head(items).cross_references = <<>>
    THEN PreambleLoop(version, table, law, acc, Tail(items))
    ELSE LET o == RunCall(PreambleFn(version), table,
                          PassContext(PreambleFn(version), "", law),
                          acc.law_articles, acc.law_relationships,
                          acc.law_article_references, Head(items).cross_references)
         IN  PreambleLoop(version, table, law, Added(acc, o), Tail(items))

\* the items before the n-th article item
RECURSIVE BeforeArticle(_, _)
BeforeArticle(items, n) ==
    IF items = <<>> THEN <<>>
    ELSE IF Head(items).content_type = "article"
    THEN IF n = 1 THEN <<>> ELSE <<Head(items)>> \o BeforeArticle(Tail(items), n - 1)
    ELSE <<Head(items)>> \o BeforeArticle(Tail(items), n)

\* the articles among the items
ArticleCount(items) ==
    Cardinality({ i \in 1..Len(items) : items[i].content_type = "article" })

\* no step of the attempt raises
NoFailure == [step |-> "none", n |-> 0]

\* the steps of an attempt that can raise: the insert of the n-th article, or
\* the aggregation of the tags after the pass
FailurePoints(items) ==
    { [step |-> "insert", n |-> k] : k \in 1..ArticleCount(items) }
    \cup { [step |-> "tags", n |-> 0] }

\* the pass and the tag aggregation of one attempt, up to the step that
\* raises
RunAttempt(version, store, law, items, fail_at) ==
    LET clean == Outcome(store.law_articles, store.law_relationships,
                         store.law_article_references, 0, 0, "")
    IN  IF fail_at.step = "insert"
        THEN ArticleLoop(version, store.laws, law, clean, BeforeArticle(items, fail_at.n))
        ELSE PreambleLoop(version, store.laws, law,
                          ArticleLoop(version, store.laws, law, clean, items), items)

\* the four tables
Store ==
    [laws |-> laws, law_articles |-> law_articles,
     law_relationships |-> law_relationships,
     law_article_references |-> law_article_references]

\* the tables become those of the record
Stored(store) ==
    /\ laws' = store.laws
    /\ law_articles' = store.law_articles
    /\ law_relationships' = store.law_relationships
    /\ law_article_references' = store.law_article_references

\* the source being ingested, and the sources of the laws already in the store
SourceId == "src"

\* table laws before the first run: the two target laws
PhaseLaws ==
    <<WithSource(Law("L1", <<"x">>, <<"A", "4", "1">>, <<1>>), "o1"),
      WithSource(Law("L2", <<"y">>, <<"4", "1">>, <<3>>), "o2")>>

\* table law_articles before the first run
PhaseArticles ==
    { Article("A1", "L1", 5, "ACTIVE"), Article("A2", "L2", 5, "REVOKED") }

\* analysis_results of the source: an article, or an article and a preamble
PhaseItems ==
    { <<Item("article", 1, a)>> : a \in BuildLists }
    \cup { <<Item("article", 1, a), Item("preamble", 0, p)>> :
               a \in BuildLists, p \in { l \in BuildLists : Len(l) <= 1 } }

\* the law record _create_parent_law_v50 inserts for the source
ParentLaw(table, date) ==
    WithSource(Law(NewLawId(table), <<"s">>, <<"9">>, date), SourceId)

\* the row of the law with the id
LawRow(table, id) == table[CHOOSE i \in 1..Len(table) : table[i].id = id]

InitPhase ==
    /\ backend = NoTextOutcome
    /\ arg = ""
    /\ analyzer = "phase"
    /\ result = NoResult
    /\ RetryIdle
    /\ laws = PhaseLaws
    /\ law_articles = PhaseArticles
    /\ law_relationships = {}
    /\ law_article_references = {}
    /\ lpc = "idle"
    /\ lctx = <<>>
    /\ lstats = <<>>
    /\ lcount = 0
    /\ lref = <<>>
    /\ lev = <<>>
    /\ plist = <<>>
    /\ lstart = <<>>
    /\ pitems \in PhaseItems
    /\ pphase = "idle"
    /\ pidx = 0
    /\ plog = <<>>
    /\ \E version \in {"v50", "v6"}, date \in {<<>>, <<2>>} :
        phase = [pc |-> "idle", version |-> version, enactment_date |-> date,
                 has_data |-> TRUE, law_id |-> "", retry_count |-> 0,
                 log |-> <<>>, runs |-> 0, start |-> <<>>]
    /\ gather = <<>>
    /\ analyst = <<>>
    /\ batches = <<>>

\* what a step of the phase leaves alone
PhaseFrame ==
    UNCHANGED <<extractVars, retryVars, linkVars, passVars, gather, analyst, batches>>

PhaseEvent(ev, law_id) == [ev |-> ev, law_id |-> law_id]

\* the phase is called for the source; its data exist or are missing
PhaseCall ==
    /\ analyzer = "phase"
    /\ phase.pc \in {"idle", "returned", "raised"}
    /\ phase.runs < MaxRuns
    /\ \E has_data \in BOOLEAN :
        phase' = [phase EXCEPT !.pc = "step0", !.has_data = has_data,
                               !.law_id = "", !.retry_count = 0, !.log = <<>>,
                               !.runs = @ + 1, !.start = Store]
    /\ UNCHANGED storeVars
    /\ PhaseFrame

\* STEP 0: a law of the source is deleted with its children; the delete may
\* raise
DeleteExisting ==
    /\ analyzer = "phase"
    /\ phase.pc = "step0"
    /\ IF ExistingLaws(laws, SourceId) = {}
       THEN /\ phase' = [phase EXCEPT !.pc = "data"]
            /\ UNCHANGED storeVars
       ELSE LET existing_law_id ==
                    laws[CHOOSE i \in ExistingLaws(laws, SourceId) :
                            \A j \in ExistingLaws(laws, SourceId) : i <= j].id
            IN  \/ /\ Stored(DeleteLawAndChildren(Store, existing_law_id))
                   /\ phase' = [phase EXCEPT !.pc = "data",
                                  !.log = Append(@, PhaseEvent("deleted", existing_law_id))]
                \/ /\ UNCHANGED storeVars
                   /\ phase' = [phase EXCEPT !.pc = "raised",
                                  !.log = Append(@, PhaseEvent("delete_failed", existing_law_id))]
    /\ PhaseFrame

\* the extraction and the analysis are read; ValueError when one is missing
GetData ==
    /\ analyzer = "phase"
    /\ phase.pc = "data"
    /\ phase' = [phase EXCEPT !.pc = IF phase.has_data THEN "create" ELSE "raised",
                   !.log = IF phase.has_data THEN @ ELSE Append(@, PhaseEvent("missing", ""))]
    /\ UNCHANGED storeVars
    /\ PhaseFrame

\* Step 1: the parent law record is inserted; the insert may raise
CreateParentLaw ==
    /\ analyzer = "phase"
    /\ phase.pc = "create"
    /\ \/ LET law == ParentLaw(laws, phase.enactment_date)
          IN  /\ laws' = Append(laws, law)
              /\ phase' = [phase EXCEPT !.pc = "attempt", !.law_id = law.id,
                             !.log = Append(@, PhaseEvent("created", law.id))]
       \/ /\ UNCHANGED laws
          /\ phase' = [phase EXCEPT !.pc = "raised",
                         !.log = Append(@, PhaseEvent("create_failed", ""))]
    /\ UNCHANGED <<law_articles, law_relationships, law_article_references>>
    /\ PhaseFrame

\* Steps 2-3, one attempt: the graph pass and the tag aggregation, any step
\* of which may raise; V5.0 counts the failure and retries while
\* retry_count <= max_retries, V6 re-raises
ProcessArticles ==
    /\ analyzer = "phase"
    /\ phase.pc = "attempt"
    /\ \E fail_at \in FailurePoints(pitems) \cup {NoFailure} :
        LET o == RunAttempt(phase.version, Store, LawRow(laws, phase.law_id),
                            pitems, fail_at)
        IN  /\ law_articles' = o.law_articles
            /\ law_relationships' = o.law_relationships
            /\ law_article_references' = o.law_article_references
            /\ UNCHANGED laws
            /\ IF fail_at = NoFailure
               THEN phase' = [phase EXCEPT !.pc = "returned",
                                !.log = Append(@, PhaseEvent("built", phase.law_id))]
               ELSE IF phase.version = "v6"
               THEN phase' = [phase EXCEPT !.pc = "raised",
                                !.log = Append(@, PhaseEvent("failed", phase.law_id))]
               ELSE phase' = [phase EXCEPT
                                !.retry_count = @ + 1,
                                !.pc = IF phase.retry_count + 1 <= max_retries
                                       THEN "compensate" ELSE "raised",
                                !.log = Append(@, PhaseEvent("failed", phase.law_id))]
    /\ PhaseFrame

\* V5.0 except clause: the law of the failed attempt is deleted; when the
\* delete raises the original error is re-raised
DeleteForRetry ==
    /\ analyzer = "phase"
    /\ phase.pc = "compensate"
    /\ \/ /\ Stored(DeleteLawAndChildren(Store, phase.law_id))
          /\ phase' = [phase EXCEPT !.pc = "recreate",
                         !.log = Append(@, PhaseEvent("deleted", phase.law_id))]
       \/ /\ UNCHANGED storeVars
          /\ phase' = [phase EXCEPT !.pc = "raised",
                         !.log = Append(@, PhaseEvent("delete_failed", phase.law_id))]
    /\ PhaseFrame

\* V5.0 except clause: the law record is created again; when the insert
\* raises the original error is re-raised
RecreateLaw ==
    /\ analyzer = "phase"
    /\ phase.pc = "recreate"
    /\ \/ LET law == ParentLaw(laws, phase.enactment_date)
          IN  /\ laws' = Append(laws, law)
              /\ phase' = [phase EXCEPT !.pc = "attempt", !.law_id = law.id,
                             !.log = Append(@, PhaseEvent("created", law.id))]
       \/ /\ UNCHANGED laws
          /\ phase' = [phase EXCEPT !.pc = "raised",
                         !.log = Append(@, PhaseEvent("create_failed", ""))]
    /\ UNCHANGED <<law_articles, law_relationships, law_article_references>>
    /\ PhaseFrame

NextPhase ==
    \/ PhaseCall
    \/ DeleteExisting
    \/ GetData
    \/ CreateParentLaw
    \/ ProcessArticles
    \/ DeleteForRetry
    \/ RecreateLaw

SpecPhase == InitPhase /\ [][NextPhase]_vars

\* the run of the phase has ended
PhaseEnded == analyzer = "phase" /\ phase.pc \in {"returned", "raised"}

\* positions of the log where an attempt ended
Attempts == { i \in 1..Len(phase.log) : phase.log[i].ev \in {"failed", "built"} }

\* C21: when a step of the ingestion fails after the law record was created,
\* the law of the failed attempt is deleted, a law record is created again and
\* the ingestion is attempted a second time; a second failure is raised to
\* the caller, and a run makes at most 2 attempts.
C21_DeleteAndRetryOnce ==
    PhaseEnded =>
        /\ Cardinality(Attempts) <= 2
        /\ \A i \in Attempts :
            (phase.log[i].ev = "failed" /\ \A j \in Attempts : i <= j) =>
                /\ Len(phase.log) >= i + 3
                /\ phase.log[i + 1] = PhaseEvent("deleted", phase.log[i].law_id)
                /\ phase.log[i + 2].ev = "created"
                /\ phase.log[i + 3].ev \in {"failed", "built"}
                /\ phase.log[i + 3].ev = "failed" => phase.pc = "raised"

\* C28: when the phase raises because the extraction or the analysis of the
\* source is missing, the four tables are as the run found them.
C28_MissingDataLeavesStore ==
    (PhaseEnded /\ phase.pc = "raised" /\ phase.log # <<>>
        /\ phase.log[Len(phase.log)].ev = "missing")
    => Store = phase.start

\* C29: after any sequence of runs of the phase for the source at most one
\* law of the source exists, at every step; when a run has returned exactly
\* one exists and it is the law whose id the run returns.
C29_AtMostOneLawPerSource ==
    analyzer = "phase" =>
        /\ Cardinality(ExistingLaws(laws, SourceId)) <= 1
        /\ phase.pc = "returned" =>
            \E i \in 1..Len(laws) :
                ExistingLaws(laws, SourceId) = {i} /\ laws[i].id = phase.law_id

\* the second run of the phase found the law of the first run, deleted it,
\* failed once, deleted and recreated the law, and returned
C29_Witness ==
    /\ analyzer = "phase"
    /\ phase.pc = "returned"
    /\ phase.runs = 2
    /\ phase.version = "v50"
    /\ ExistingLaws(phase.start.laws, SourceId) # {}
    /\ Len(phase.log) = 6
    /\ phase.log[1].ev = "deleted"
    /\ phase.log[3].ev = "failed"
    /\ phase.log[4].ev = "deleted"
    /\ phase.log[6].ev = "built"
    /\ Cardinality(ExistingLaws(laws, SourceId)) = 1

\* the links of a store, without the id of the source law
Links(rels, arefs) ==
    [law |-> { [target_law_id |-> r.target_law_id,
                relationship_type |-> r.relationship_type] : r \in rels },
     article |-> arefs]

\* the links of a single clean run of the phase on the store that holds no
\* law of the source
CleanRunLinks ==
    LET law == ParentLaw(PhaseLaws, phase.enactment_date)
        o == RunAttempt(phase.version,
                        [laws |-> Append(PhaseLaws, law),
                         law_articles |-> PhaseArticles,
                         law_relationships |-> {},
                         law_article_references |-> {}],
                        law, pitems, NoFailure)
    IN  Links(o.law_relationships, o.law_article_references)

\* C27: whenever a run of the phase returns, after a delete-and-retry or as
\* a later run for the same source with the same data, the law links and the
\* article links of the store are those of a single clean run.
C27_RebuildYieldsSameLinks ==
    (analyzer = "phase" /\ phase.pc = "returned")
    => Links(law_relationships, law_article_references) = CleanRunLinks

\* C24: a step of a link call leaves table laws as it is, removes or changes
\* no law link and no article link that existed, and inserts or removes no
\* article; an article that existed keeps its id, law and ordinal, so that
\* only status_id and valid_to of an article can change.
C24_LinkChangesOnlyArticleStatus ==
    [][ analyzer = "linker" =>
          /\ laws' = laws
          /\ law_relationships \subseteq law_relationships'
          /\ law_article_references \subseteq law_article_references'
          /\ { a.id : a \in law_articles' } = { a.id : a \in law_articles }
          /\ \A a \in law_articles : \E b \in law_articles' :
                /\ b.id = a.id
                /\ b.law_id = a.law_id
                /\ b.article_order = a.article_order ]_vars

\* an amends reference has changed the status of article 5 of L1, and the
\* laws are those of the start
C24_Witness ==
    /\ Processed
    /\ lev.status_updated
    /\ \E a \in law_articles :
        a.id = "A1" /\ a.law_id = "L1" /\ a.article_order = 5 /\ a.status_id # "ACTIVE"
    /\ Len(laws) = 3

\* C26: in a step of a link call an article that is not ACTIVE stays as it
\* is and becomes the target of no new article link, and the status of an
\* article changes only from ACTIVE to SUPERSEDED or REVOKED.
C26_StatusOnlyLeavesActive ==
    [][ analyzer = "list" =>
          /\ \A a \in law_articles :
                a.status_id # "ACTIVE" =>
                    /\ a \in law_articles'
                    /\ \A r \in law_article_references' \ law_article_references :
                          r.target_article_id # a.id
          /\ \A a \in law_articles, b \in law_articles' :
                (b.id = a.id /\ b.status_id # a.status_id) =>
                    /\ a.status_id = "ACTIVE"
                    /\ b.status_id \in {"SUPERSEDED", "REVOKED"} ]_vars

\* after an amends reference superseded article 5 of L1, a second reference
\* to that article was processed: the article is as the first left it and its
\* only article link is the first one
C26_Witness ==
    /\ analyzer = "list"
    /\ lcount = 2
    /\ lctx.fn = "article_v50"
    /\ plist[1] = [ref |-> Reference("amends", <<"d", "/", "x">>, <<>>, <<"a", "5">>),
                   fault |-> "none"]
    /\ plist[2] = [ref |-> Reference("cites", <<"d", "/", "x">>, <<>>, <<"a", "5">>),
                   fault |-> "none"]
    /\ \E a \in law_articles :
        a.id = "A1" /\ a.status_id = "SUPERSEDED" /\ a.valid_to = <<1>>
    /\ { r \in law_article_references : r.target_article_id = "A1" }
            = { [source_article_id |-> "SA", target_article_id |-> "A1",
                 reference_type |-> "AMENDS"] }

-----------------------------------------------------------------------------
(* The V5.0 analyst phase: run_kritis_v50_analyst_phase.                   *)

\* longest articles list of the extraction
MaxItems == 2

\* what the backend does for the call of an item
AnalystOutcomes ==
    { ErrorOutcome("r429"), NoTextOutcome,
      TextOutcome(<<"VAL">>, GoodV50), TextOutcome(<<"TRUNC">>, GoodV50),
      TextOutcome(<<"VAL">>, Num) }

\* an item of the extraction: whether it carries its text key, and the
\* backend outcome of its call
AnalystItems == [has_text : BOOLEAN, outcome : AnalystOutcomes]

\* extraction_data: a preamble_text or none, and the articles
Extractions ==
    [preamble : { <<>> } \cup { <<o>> : o \in AnalystOutcomes },
     articles : UNION { [1..n -> AnalystItems] : n \in 0..MaxItems }]

\* _analyze_content_v50 took its except branch
FellBackV50(o) ==
    \/ o.kind # "text"
    \/ ~JsonLoads(CleanResponse(o.text), o.val).ok
    \/ ~NormalizeV50(JsonLoads(CleanResponse(o.text), o.val).val).ok

\* an entry of analysis_results
AnalysisItem(content_type, article_order, analysis) ==
    [content_type |-> content_type, article_order |-> article_order,
     analysis |-> analysis]

\* successful_analyses / total_items * 100, in whole percent
CompletionRate(successful_analyses, total_items) ==
    IF total_items > 0 THEN (successful_analyses * 100) \div total_items ELSE 0

InitAnalyst ==
    /\ backend = NoTextOutcome
    /\ arg = ""
    /\ analyzer = "analyst"
    /\ result = NoResult
    /\ RetryIdle
    /\ LinkIdle
    /\ phase = <<>>
    /\ gather = <<>>
    /\ batches = <<>>
    /\ \E extraction_data \in Extractions :
        analyst = [pc |-> "preamble", extraction_data |-> extraction_data,
                   i |-> 0, analysis_results |-> <<>>, total_items |-> 0,
                   successful_analyses |-> 0, fell_back |-> {},
                   stored |-> <<>>, returned |-> <<>>]

AnalystFrame ==
    UNCHANGED <<extractVars, retryVars, storeVars, linkVars, passVars, phase, gather,
                batches>>

\* the preamble, when there is one, is analyzed and counted
AnalyzePreamble ==
    /\ analyzer = "analyst"
    /\ analyst.pc = "preamble"
    /\ IF analyst.extraction_data.preamble = <<>>
       THEN analyst' = [analyst EXCEPT !.pc = "articles"]
       ELSE LET o == analyst.extraction_data.preamble[1]
                r == analyze_content_v50(o)
            IN  analyst' = [analyst EXCEPT
                    !.pc = "articles",
                    !.analysis_results =
                        IF r.kind = "return"
                        THEN Append(@, AnalysisItem("preamble", 0, r.val)) ELSE @,
                    !.successful_analyses = IF r.kind = "return" THEN @ + 1 ELSE @,
                    !.fell_back = IF FellBackV50(o) THEN @ \cup {0} ELSE @,
                    !.total_items = @ + 1]
    /\ AnalystFrame

\* one iteration of `for i, article in enumerate(articles)`; an article
\* without its official_text raises KeyError inside the try block
AnalyzeArticle ==
    /\ analyzer = "analyst"
    /\ analyst.pc = "articles"
    /\ analyst.i < Len(analyst.extraction_data.articles)
    /\ LET article == analyst.extraction_data.articles[analyst.i + 1]
           r == IF article.has_text THEN analyze_content_v50(article.outcome)
                ELSE Raise("KeyError")
       IN  analyst' = [analyst EXCEPT
               !.i = @ + 1,
               !.analysis_results =
                   IF r.kind = "return"
                   THEN Append(@, AnalysisItem("article", analyst.i + 1, r.val)) ELSE @,
               !.successful_analyses = IF r.kind = "return" THEN @ + 1 ELSE @,
               !.fell_back = IF article.has_text /\ FellBackV50(article.outcome)
                             THEN @ \cup {analyst.i + 1} ELSE @,
               !.total_items = @ + 1]
    /\ AnalystFrame

\* the analysis data are stored and the counters returned
StoreAnalysis ==
    /\ analyzer = "analyst"
    /\ analyst.pc = "articles"
    /\ analyst.i = Len(analyst.extraction_data.articles)
    /\ LET summary ==
               [total_items_analyzed |-> analyst.total_items,
                successful_analyses |-> analyst.successful_analyses,
                completion_rate |->
                    CompletionRate(analyst.successful_analyses, analyst.total_items)]
       IN  analyst' = [analyst EXCEPT
               !.pc = "returned",
               !.stored = [analysis_results |-> analyst.analysis_results,
                           summary |-> summary],
               !.returned = summary]
    /\ AnalystFrame

NextAnalyst ==
    \/ AnalyzePreamble
    \/ AnalyzeArticle
    \/ StoreAnalysis

SpecAnalyst == InitAnalyst /\ [][NextAnalyst]_vars

\* the informal_summary_title of the Portuguese analysis of a stored entry
\* ("" when the analysis has no such member)
StoredTitle(e) ==
    IF /\ IsDict(e.analysis) /\ PyIn("analysis", e.analysis)
       /\ IsDict(e.analysis.m["analysis"]) /\ PyIn("pt", e.analysis.m["analysis"])
    THEN e.analysis.m["analysis"].m["pt"].m["informal_summary_title"].s
    ELSE ""

\* C25: when the phase has returned, every item whose extraction fell back
\* either has no entry in the stored analysis_results, with the returned
\* completion_rate below 100, or has an entry whose title is a non-empty
\* placeholder.
C25_FallbackInspectable ==
    (analyzer = "analyst" /\ analyst.pc = "returned") =>
        \A k \in analyst.fell_back :
            LET entries == { j \in 1..Len(analyst.stored.analysis_results) :
                               analyst.stored.analysis_results[j].article_order = k }
            IN  \/ entries = {} /\ analyst.returned.completion_rate < 100
                \/ \A j \in entries :
                       StoredTitle(analyst.stored.analysis_results[j]) # ""

-----------------------------------------------------------------------------
(* The legacy map phase: DocumentAnalyzer.run_map_phase, one task per      *)
(* chunk under asyncio.Semaphore(5), gathered in task order.               *)

\* semaphore = asyncio.Semaphore(5)
semaphore_value == 5

\* longest list of chunks
MaxChunks == 6

\* chunk['id'] of the chunks, in list order
ChunkIds == <<"c1", "c2", "c3", "c4", "c5", "c6", "c7", "c8">>

\* what the backend does for the call of a task
GatherOutcomes ==
    { TextOutcome(<<"VAL">>, GoodChunk), TextOutcome(<<"TRUNC">>, GoodChunk),
      ErrorOutcome("transport") }

\* what analyze_chunk returns for each backend outcome and chunk id
ChunkResults ==
    [o \in GatherOutcomes, c \in { ChunkIds[i] : i \in 1..Len(ChunkIds) } |->
        analyze_chunk(o, c).val]

\* a task before it runs
NewTask == [pc |-> "waiting", delayed |-> FALSE, result |-> Null]

InitGather ==
    /\ backend = NoTextOutcome
    /\ arg = ""
    /\ analyzer = "gather"
    /\ result = NoResult
    /\ RetryIdle
    /\ LinkIdle
    /\ phase = <<>>
    /\ analyst = <<>>
    /\ batches = <<>>
    /\ \E n \in 0..MaxChunks :
        gather = [pc |-> "gathering",
                  chunks |-> [i \in 1..n |-> [id |-> ChunkIds[i]]],
                  tasks |-> [i \in 1..n |-> NewTask],
                  semaphore |-> semaphore_value,
                  results |-> <<>>]

GatherFrame ==
    UNCHANGED <<extractVars, retryVars, storeVars, linkVars, passVars, phase, analyst,
                batches>>

\* a step of the map phase changes the tasks only
GatherStep(g) ==
    /\ analyzer = "gather"
    /\ gather.pc = "gathering"
    /\ gather' = g
    /\ GatherFrame

\* mutant of Acquire: the task enters without a free slot
AcquireUnlimited(i) ==
    /\ gather.tasks[i].pc = "waiting"
    /\ GatherStep([gather EXCEPT !.tasks[i].pc = "sleeping",
                                 !.semaphore = IF @ > 0 THEN @ - 1 ELSE 0])

\* async with semaphore: the task takes a slot when one is free
Acquire(i) ==
    /\ gather.tasks[i].pc = "waiting"
    /\ gather.semaphore > 0
    /\ GatherStep([gather EXCEPT !.tasks[i].pc = "sleeping", !.semaphore = @ - 1])

\* await asyncio.sleep(1) is over: the backend call of the task starts
Sleep(i) ==
    /\ gather.tasks[i].pc = "sleeping"
    /\ GatherStep([gather EXCEPT !.tasks[i].pc = "calling",
                                 !.tasks[i].delayed = TRUE])

\* the backend call is over: analyze_chunk returns its result and the slot is
\* released
Finish(i) ==
    /\ gather.tasks[i].pc = "calling"
    /\ \E o \in GatherOutcomes :
        GatherStep([gather EXCEPT
            !.tasks[i].pc = "done",
            !.tasks[i].result = ChunkResults[o, gather.chunks[i].id],
            !.semaphore = @ + 1])

TaskAcquires ==
    /\ analyzer = "gather"
    /\ \E i \in 1..Len(gather.tasks) : Acquire(i)

TaskSleeps ==
    /\ analyzer = "gather"
    /\ \E i \in 1..Len(gather.tasks) : Sleep(i)

TaskFinishes ==
    /\ analyzer = "gather"
    /\ \E i \in 1..Len(gather.tasks) : Finish(i)

\* results = await asyncio.gather(*tasks): the results in task order, when
\* every task is done
GatherReturn ==
    /\ analyzer = "gather"
    /\ \A i \in 1..Len(gather.tasks) : gather.tasks[i].pc = "done"
    /\ GatherStep([gather EXCEPT
           !.pc = "returned",
           !.results = [i \in 1..Len(gather.tasks) |-> gather.tasks[i].result]])

NextGather ==
    \/ TaskAcquires
    \/ TaskSleeps
    \/ TaskFinishes
    \/ GatherReturn

SpecGather == InitGather /\ [][NextGather]_vars

\* the event loop runs a task that can run
SpecGatherFair == SpecGather /\ WF_vars(NextGather)

\* the tasks at a position of limited_analyze
TasksAt(pc) == { i \in 1..Len(gather.tasks) : gather.tasks[i].pc = pc }

\* C22: at every moment at most 5 backend calls are in flight; the tasks that
\* sleep or call are exactly those that hold one of the 5 slots, and a task
\* whose call is in flight has taken its delay while it held its slot.
C22_AtMostFiveInFlight ==
    analyzer = "gather" =>
        /\ Cardinality(TasksAt("calling")) <= semaphore_value
        /\ Cardinality(TasksAt("sleeping") \cup TasksAt("calling"))
              = semaphore_value - gather.semaphore
        /\ gather.semaphore >= 0
        /\ \A i \in TasksAt("calling") : gather.tasks[i].delayed

\* five calls are in flight and a sixth task waits for a slot
C22_Witness ==
    /\ analyzer = "gather"
    /\ Cardinality(TasksAt("calling")) = semaphore_value
    /\ TasksAt("waiting") # {}
    /\ gather.semaphore = 0

\* C23: the map phase returns, and it returns one result per chunk, the
\* result at each position carrying the id of the chunk at that position.
C23_OneResultPerChunk ==
    <>(/\ analyzer = "gather"
       /\ gather.pc = "returned"
       /\ Len(gather.results) = Len(gather.chunks)
       /\ \A i \in 1..Len(gather.chunks) :
            /\ IsDict(gather.results[i])
            /\ PyIn("chunk_id", gather.results[i])
            /\ gather.results[i].m["chunk_id"] = Str(gather.chunks[i].id))

\* six chunks were gathered, some analyzed and some replaced by the fallback
C23_Witness ==
    /\ analyzer = "gather"
    /\ gather.pc = "returned"
    /\ Len(gather.chunks) = 6
    /\ Len(gather.results) = 6
    /\ gather.results[1] = FallbackChunk("c1", "Erro na analise - resposta invalida")
    /\ gather.results[6] = Put(GoodChunk, "chunk_id", Str("c6"))

-----------------------------------------------------------------------------
(* Smart batching: KritisAnalyzerV3._create_smart_batches and              *)
(* KritisAnalyzerV4._create_smart_batches_v4.                              *)

\* longest articles list handed to the batching
MaxArticles == 4

\* largest token count of one article
MaxTokens == 3

\* an article: its position in the input, and len(tokenizer.encode(text))
BatchArticles == [order : 1..MaxArticles, tokens : 0..MaxTokens]

\* the articles lists: article i of the list carries order i
ArticleLists ==
    UNION { { l \in [1..n -> BatchArticles] : \A i \in 1..n : l[i].order = i }
            : n \in 0..MaxArticles }

\* self.max_tokens_per_batch
TokenLimits == 0..(2 * MaxTokens)

\* mutant of create_smart_batches: a full batch is closed even when it is
\* empty
RECURSIVE create_smart_batches_unguarded(_, _, _, _, _)
create_smart_batches_unguarded(articles, max_tokens_per_batch, out, current_batch, current_token_count) ==
    IF articles = <<>>
    THEN IF current_batch # <<>> THEN Append(out, current_batch) ELSE out
    ELSE LET article == Head(articles)
             article_tokens == article.tokens
         IN  IF current_token_count + article_tokens > max_tokens_per_batch
             THEN create_smart_batches_unguarded(Tail(articles), max_tokens_per_batch,
                      Append(out, current_batch), <<article>>, article_tokens)
             ELSE create_smart_batches_unguarded(Tail(articles), max_tokens_per_batch,
                      out, Append(current_batch, article),
                      current_token_count + article_tokens)

\* _create_smart_batches: the loop over the articles and the final batch
RECURSIVE create_smart_batches(_, _, _, _, _)
create_smart_batches(articles, max_tokens_per_batch, out, current_batch, current_token_count) ==
    IF articles = <<>>
    THEN IF current_batch # <<>> THEN Append(out, current_batch) ELSE out
    ELSE LET article == Head(articles)
             article_tokens == article.tokens
         IN  IF /\ current_token_count + article_tokens > max_tokens_per_batch
                /\ current_batch # <<>>
             THEN create_smart_batches(Tail(articles), max_tokens_per_batch,
                      Append(out, current_batch), <<article>>, article_tokens)
             ELSE create_smart_batches(Tail(articles), max_tokens_per_batch,
                      out, Append(current_batch, article),
                      current_token_count + article_tokens)

\* _create_smart_batches_v4
RECURSIVE create_smart_batches_v4(_, _, _, _, _)
create_smart_batches_v4(articles, max_tokens_per_batch, out, current_batch, current_token_count) ==
    IF articles = <<>>
    THEN IF current_batch # <<>> THEN Append(out, current_batch) ELSE out
    ELSE LET article == Head(articles)
             article_tokens == article.tokens
         IN  IF /\ current_token_count + article_tokens > max_tokens_per_batch
                /\ current_batch # <<>>
             THEN create_smart_batches_v4(Tail(articles), max_tokens_per_batch,
                      Append(out, current_batch), <<article>>, article_tokens)
             ELSE create_smart_batches_v4(Tail(articles), max_tokens_per_batch,
                      out, Append(current_batch, article),
                      current_token_count + article_tokens)

InitBatch ==
    /\ backend = NoTextOutcome
    /\ arg = ""
    /\ analyzer = "batch"
    /\ result = NoResult
    /\ RetryIdle
    /\ LinkIdle
    /\ phase = <<>>
    /\ gather = <<>>
    /\ analyst = <<>>
    /\ \E articles \in ArticleLists, max_tokens_per_batch \in TokenLimits :
        batches = [fn |-> "none", articles |-> articles,
                   max_tokens_per_batch |-> max_tokens_per_batch, out |-> <<>>]

\* the batching ran and returned the batches
Batched(fn, out) ==
    /\ analyzer = "batch"
    /\ batches.fn = "none"
    /\ batches' = [batches EXCEPT !.fn = fn, !.out = out]
    /\ UNCHANGED <<extractVars, retryVars, storeVars, linkVars, passVars, phase, gather,
                   analyst>>

CreateSmartBatches ==
    Batched("v3", create_smart_batches(batches.articles, batches.max_tokens_per_batch,
                                       <<>>, <<>>, 0))

CreateSmartBatchesV4 ==
    Batched("v4", create_smart_batches_v4(batches.articles, batches.max_tokens_per_batch,
                                          <<>>, <<>>, 0))

NextBatch ==
    \/ CreateSmartBatches
    \/ CreateSmartBatchesV4

SpecBatch == InitBatch /\ [][NextBatch]_vars

\* the batches of a list, one after the other
RECURSIVE Flatten(_)
Flatten(list) == IF list = <<>> THEN <<>> ELSE Head(list) \o Flatten(Tail(list))

\* the token count of a batch
RECURSIVE TokenCount(_)
TokenCount(batch) ==
    IF batch = <<>> THEN 0 ELSE Head(batch).tokens + TokenCount(Tail(batch))

\* C30: the batches of V3 and V4, one after the other, are the input list; no
\* batch is empty; a batch of more than one article has a token count of at
\* most the limit.
C30_BatchesPartitionInput ==
    (analyzer = "batch" /\ batches.fn # "none") =>
        /\ Flatten(batches.out) = batches.articles
        /\ \A i \in 1..Len(batches.out) :
            /\ batches.out[i] # <<>>
            /\ Len(batches.out[i]) > 1 =>
                  TokenCount(batches.out[i]) <= batches.max_tokens_per_batch

\* an oversized article was batched alone, and another batch holds more than
\* one article
C30_Witness ==
    /\ analyzer = "batch"
    /\ batches.fn # "none"
    /\ Len(batches.out) >= 2
    /\ \E i \in 1..Len(batches.out) :
        /\ Len(batches.out[i]) = 1
        /\ TokenCount(batches.out[i]) > batches.max_tokens_per_batch
    /\ \E i \in 1..Len(batches.out) : Len(batches.out[i]) > 1

====
